---- MODULE Spec2Model ----
(***************************************************************************)
(* Model of the Synchronous NIMBUS orchestration of DESDEO:                *)
(*   - the solution archive kept by the /nimbus router                     *)
(*     (src/desdeo/api/routers/NIMBUS.py), and                             *)
(*   - the method functions of src/desdeo/mcdm/nimbus.py.                  *)
(*                                                                         *)
(* Numbers are fixed-point integers in units of 1e-5, so that the          *)
(* tolerance test of numpy.isclose / numpy.allclose                        *)
(*     |a - b| <= atol + rtol * |b|,   atol = 1e-8, rtol = 1e-5            *)
(* becomes   |a - b| <= (AtolScaled + |b|) \div RtolInv   over the         *)
(* integers (the product RtolInv * |a - b| is avoided: it exceeds 32 bits).*)
(***************************************************************************)
EXTENDS Integers, Sequences, FiniteSets, TLC

\* ------------------------------------------------------------------------
\* Bounds of the model
\* ------------------------------------------------------------------------
\* largest number of rows the archive table may hold
MaxArchive == 3
\* largest number of results one solve returns to the router
MaxBatch == 2
\* largest number of preferences recorded before a new iterate is served
MaxPreferences == 2
\* largest num_desired given to solve_intermediate_solutions
MaxNumDesired == 3

\* ------------------------------------------------------------------------
\* numpy.isclose / numpy.allclose
\* ------------------------------------------------------------------------
\* 1 / rtol of numpy.isclose (rtol = 1e-5)
RtolInv == 100000
\* atol of numpy.isclose (1e-8) in units of 1e-5, multiplied by RtolInv
AtolScaled == 100

Abs(x) == IF x < 0 THEN 0 - x ELSE x

\* numpy.isclose(a, b): the tolerance is relative to the SECOND argument
isclose(a, b) == Abs(a - b) <= (AtolScaled + Abs(b)) \div RtolInv

\* numpy.allclose(a, b) on two lists of the same length
allclose(a, b) ==
    /\ Len(a) = Len(b)
    /\ \A k \in 1..Len(a) : isclose(a[k], b[k])

\* ------------------------------------------------------------------------
\* The archive (table SolutionArchive) and the requests in flight
\* ------------------------------------------------------------------------
\* objective vectors a solver can return: 1.00000, 1.00001, 1.00002 in the
\* first objective are pairwise within / outside the tolerance
ObjectiveVectors ==
    { <<100000, 5>>, <<100001, 5>>, <<100002, 5>>, <<100001, 7>> }

\* the NIMBUS method id returned by get_nimbus_method_id
NimbusMethod == "NIMBUS"

\* worker threads of the web server; each serves one request at a time
Threads == {1, 2}

VARIABLES
    archive,            \* rows of SolutionArchive for one (problem, user), in table order
    pc,                 \* pc[t]: where the handler run by thread t stands
    previous_solutions, \* previous_solutions[t]: row numbers read by the handler
    results,            \* results[t]: the list of SolverResults of the handler
    response,           \* response[t]: HTTP status of the last request of thread t
    last_batch,         \* objective vectors of the successful results of the last completed call
    preferences         \* the table Preference: the preferences recorded so far, by id

router_vars == <<archive, pc, previous_solutions, results, response, last_batch, preferences>>

\* a call of one of the functions of desdeo.mcdm.nimbus or of
\* desdeo.tools.scalarization
VARIABLES
    call,       \* the function called and its arguments
    outcome,    \* what the call returned or raised
    solver_log, \* the solvers created and invoked by the call, in order
    evaluated,  \* the decision vectors given to the evaluator by the call
    heap        \* the objects (Problem, solver) the caller holds; an object is its index

method_vars == <<call, outcome, solver_log, evaluated, heap>>

vars == <<archive, pc, previous_solutions, results, response, last_batch, preferences,
          call, outcome, solver_log, evaluated, heap>>

\* an optional value: {} stands for None, {v} for the value v
None == {}
Some(v) == {v}
ValueOf(o) == CHOOSE v \in o : TRUE

\* a value of a decision variable: a number, or a list of such values
Scalar(v) == [list |-> FALSE, value |-> v]
List(items) == [list |-> TRUE, items |-> items]

\* the decision variables the solver reports with an objective vector: a
\* number and a one-element list
OptimalVariables(objs) == <<Scalar(objs[2]), List(<<Scalar(objs[1])>>)>>

\* flatten, lines 367-382: the numbers of a nested list, in order
RECURSIVE flatten(_)
flatten(lst) ==
    IF lst = <<>> THEN <<>>
    ELSE (IF Head(lst).list THEN flatten(Head(lst).items) ELSE <<Head(lst)>>)
         \o flatten(Tail(lst))

\* a SolverResults value, reduced to the fields the router reads
SolverResult(objs, ok) ==
    [optimal_objectives |-> objs, optimal_variables |-> OptimalVariables(objs),
     success |-> ok]

\* objective vectors reported by a solver run that ended with success = False
FailedObjectiveVectors == { <<100002, 5>> }

\* the results a solver can return
SolverResults ==
    { SolverResult(o, TRUE) : o \in ObjectiveVectors }
    \cup { SolverResult(o, FALSE) : o \in FailedObjectiveVectors }

\* every list of 1..MaxBatch solver results
Batches == UNION { [1..n -> SolverResults] : n \in 1..MaxBatch }

\* the row written by utopia2_db_init.py as starting value
SeedRow(objs) ==
    [method |-> NimbusMethod, objectives |-> objs,
     preference |-> None,
     decision_variables |-> OptimalVariables(objs),
     saved |-> TRUE, current |-> TRUE, chosen |-> FALSE]

\* a row appended without the current flag
NewRow_NotCurrent(method_id, pref, res) ==
    [method |-> method_id, objectives |-> res.optimal_objectives,
     preference |-> pref,
     decision_variables |-> flatten(res.optimal_variables),
     saved |-> FALSE, current |-> FALSE, chosen |-> FALSE]

\* the row appended by save_results_to_db for a novel result
NewRow(method_id, pref, res) ==
    [method |-> method_id, objectives |-> res.optimal_objectives,
     preference |-> pref,
     decision_variables |-> flatten(res.optimal_variables),
     saved |-> FALSE, current |-> TRUE, chosen |-> FALSE]

\* read_solutions_from_db: the row numbers of the key, in table order
RECURSIVE RowsOfMethod(_, _, _)
RowsOfMethod(table, method_id, i) ==
    IF i > Len(table) THEN <<>>
    ELSE (IF table[i].method = method_id THEN <<i>> ELSE <<>>)
         \o RowsOfMethod(table, method_id, i + 1)

read_solutions_from_db(table, method_id) == RowsOfMethod(table, method_id, 1)

\* ---- save_results_to_db ------------------------------------------------
\* lines 482-490: j is a duplicate when some earlier result i (dropped or
\* not) has allclose(results[i], results[j]); duplicates are popped
IsDuplicateIndex(res, j) ==
    \E i \in 1..(j - 1) :
        allclose(res[i].optimal_objectives, res[j].optimal_objectives)

RECURSIVE PopDuplicates(_, _)
PopDuplicates(res, j) ==
    IF j > Len(res) THEN <<>>
    ELSE (IF IsDuplicateIndex(res, j) THEN <<>> ELSE <<res[j]>>)
         \o PopDuplicates(res, j + 1)

\* a reconciliation that keeps the duplicates inside the batch
remove_duplicates_Kept(res) == res

remove_duplicates(res) == PopDuplicates(res, 1)

\* lines 492-500: every current row of the problem and user is reset
RECURSIVE MarkNotCurrent(_, _)
MarkNotCurrent(table, i) ==
    IF i > Len(table) THEN <<>>
    ELSE <<[table[i] EXCEPT !.current = FALSE]>> \o MarkNotCurrent(table, i + 1)

\* lines 505-509: the first previous solution the result is allclose to,
\* 0 when there is none
RECURSIVE FindDuplicate(_, _, _, _)
FindDuplicate(table, prev, res, k) ==
    IF k > Len(prev) THEN 0
    ELSE IF allclose(res.optimal_objectives, table[prev[k]].objectives)
         THEN prev[k]
         ELSE FindDuplicate(table, prev, res, k + 1)

\* a loop that writes the new result over the entry it matches
RECURSIVE StoreResults_Overwrite(_, _, _, _, _, _)
StoreResults_Overwrite(table, prev, method_id, pref, res, n) ==
    IF n > Len(res) THEN table
    ELSE LET d == FindDuplicate(table, prev, res[n], 1)
             next == IF d # 0
                     THEN [table EXCEPT ![d] = [NewRow(method_id, pref, res[n]) EXCEPT
                                                    !.saved = table[d].saved,
                                                    !.chosen = table[d].chosen]]
                     ELSE Append(table, NewRow(method_id, pref, res[n]))
         IN  StoreResults_Overwrite(next, prev, method_id, pref, res, n + 1)

\* lines 502-524: the loop over the remaining results
RECURSIVE StoreResults(_, _, _, _, _, _)
StoreResults(table, prev, method_id, pref, res, n) ==
    IF n > Len(res) THEN table
    ELSE LET d == FindDuplicate(table, prev, res[n], 1)
             next == IF d # 0
                     THEN [table EXCEPT ![d].current = TRUE]
                     ELSE Append(table, NewRow(method_id, pref, res[n]))
         IN  StoreResults(next, prev, method_id, pref, res, n + 1)

\* the classes of the requests handed to save_results_to_db
RequestTypes == {"InitRequest", "NIMBUSIterateRequest", "NIMBUSIntermediateSolutionRequest"}

\* type(x) of a bool x is the class bool, whichever bool x is; bool(c) of a
\* class c is True
type(x) == IF x \in BOOLEAN THEN "bool" ELSE "object"
bool(c) == c # ""

\* line 474: "NIMBUS" if type(type(request) is NIMBUSIterateRequest)
\* else "NIMBUS_intermediate"
preference_kind(request_type) ==
    IF bool(type(request_type = "NIMBUSIterateRequest"))
    THEN "NIMBUS" ELSE "NIMBUS_intermediate"

\* lines 466-480: no preference for an InitRequest; otherwise a Preference
\* row is added and committed, and its id is the preference of the call
record_preference(prefs, request_type, method_id) ==
    IF request_type = "InitRequest"
    THEN [preferences |-> prefs, pref |-> None]
    ELSE [preferences |-> Append(prefs, [method |-> method_id,
                                         kind |-> preference_kind(request_type)]),
          pref |-> Some(Len(prefs) + 1)]

\* save_results_to_db, lines 450-525: the two tables after the call
save_results_to_db(table, prefs, prev, request_type, method_id, res) ==
    LET recorded == record_preference(prefs, request_type, method_id)
    IN  [archive |-> StoreResults(MarkNotCurrent(table, 1), prev, method_id,
                                  recorded.pref, remove_duplicates(res), 1),
         preferences |-> recorded.preferences]

\* ------------------------------------------------------------------------
\* Handlers of the router
\* ------------------------------------------------------------------------
\* iterate, lines 175-185: read the previous solutions; 404 when none
iterate_read(t) ==
    /\ pc[t] = "idle"
    /\ Len(preferences) < MaxPreferences
    /\ LET prev == read_solutions_from_db(archive, NimbusMethod)
       IN  /\ previous_solutions' = [previous_solutions EXCEPT ![t] = prev]
           /\ IF prev = <<>>
              THEN /\ response' = [response EXCEPT ![t] = "404"]
                   /\ pc' = pc
              ELSE /\ response' = [response EXCEPT ![t] = "pending"]
                   /\ pc' = [pc EXCEPT ![t] = "iterate_solve"]
    /\ UNCHANGED <<archive, results, last_batch, preferences>>
    /\ UNCHANGED method_vars

\* iterate, lines 190-199: solve_sub_problems returns the solver's results
iterate_solve(t) ==
    /\ pc[t] = "iterate_solve"
    /\ \E batch \in Batches : results' = [results EXCEPT ![t] = batch]
    /\ pc' = [pc EXCEPT ![t] = "iterate_save"]
    /\ UNCHANGED <<archive, previous_solutions, response, last_batch, preferences>>
    /\ UNCHANGED method_vars

\* iterate, lines 201-219: save_results_to_db, then the response
iterate_save(t) ==
    /\ pc[t] = "iterate_save"
    /\ LET db == save_results_to_db(archive, preferences, previous_solutions[t],
                                    "NIMBUSIterateRequest", NimbusMethod, results[t])
       IN  /\ Len(db.archive) <= MaxArchive
           /\ archive' = db.archive
           /\ preferences' = db.preferences
    /\ last_batch' = { results[t][k].optimal_objectives :
                            k \in { h \in 1..Len(results[t]) : results[t][h].success } }
    /\ pc' = [pc EXCEPT ![t] = "idle"]
    /\ response' = [response EXCEPT ![t] = "200"]
    /\ results' = [results EXCEPT ![t] = <<>>]
    /\ previous_solutions' = [previous_solutions EXCEPT ![t] = <<>>]
    /\ UNCHANGED method_vars

Handler(t) ==
    \/ iterate_read(t)
    \/ iterate_solve(t)
    \/ iterate_save(t)

\* a handler that ends without a write to the archive
Respond(t, status) ==
    /\ response' = [response EXCEPT ![t] = status]
    /\ UNCHANGED <<archive, pc, previous_solutions, results, last_batch, preferences>>
    /\ UNCHANGED method_vars

\* init_nimbus, lines 119-155: with an empty archive the starting point is
\* requested as generate_starting_point(problem=..., solver=...), a keyword
\* the function does not have (TypeError); otherwise the archive is only read
init_nimbus(t) ==
    /\ pc[t] = "idle"
    /\ IF read_solutions_from_db(archive, NimbusMethod) = <<>>
       THEN Respond(t, "500")
       ELSE Respond(t, "200")

\* intermediate, lines 239-261: 404 without previous solutions; otherwise
\* the solutions are handed over as dicts keyed by the Objective objects, in
\* which solve_intermediate_solutions finds no variable symbol: the call
\* raises before save_results_to_db is reached
intermediate(t) ==
    /\ pc[t] = "idle"
    /\ IF read_solutions_from_db(archive, NimbusMethod) = <<>>
       THEN Respond(t, "404")
       ELSE Respond(t, "500")

\* the solutions a save or choose request names: one within the tolerance of several
\* objective vectors, one within the tolerance of itself only
RequestedVectors == { <<100001, 5>>, <<100001, 7>> }

\* a save request names one of them, or both in either order
SaveRequests ==
    { <<a>> : a \in RequestedVectors }
    \cup { <<p[1], p[2]>> : p \in { q \in RequestedVectors \X RequestedVectors : q[1] # q[2] } }

\* a save that flags the requested solutions and clears the flag of the others
mark_saved_Exclusive(table, prev, solutions) ==
    [i \in 1..Len(table) |->
        IF \E k \in 1..Len(prev) : prev[k] = i
        THEN [table[i] EXCEPT !.saved =
                 \E k \in 1..Len(solutions) : allclose(solutions[k], table[i].objectives)]
        ELSE table[i]]

\* save, lines 310-314: every previous solution close to a requested one
mark_saved(table, prev, solutions) ==
    [i \in 1..Len(table) |->
        IF /\ \E k \in 1..Len(prev) : prev[k] = i
           /\ \E k \in 1..Len(solutions) : allclose(solutions[k], table[i].objectives)
        THEN [table[i] EXCEPT !.saved = TRUE]
        ELSE table[i]]

\* save, lines 301-327, for a request with these solutions
save_request(t, solutions) ==
    /\ pc[t] = "idle"
    /\ LET prev == read_solutions_from_db(archive, NimbusMethod)
       IN  IF prev = <<>>
           THEN Respond(t, "404")
           ELSE /\ archive' = mark_saved(archive, prev, solutions)
                /\ response' = [response EXCEPT ![t] = "200"]
                /\ UNCHANGED <<pc, previous_solutions, results, last_batch, preferences>>
                /\ UNCHANGED method_vars

save(t) == \E solutions \in SaveRequests : save_request(t, solutions)

\* a search that goes on to the last previous solution close to the
\* requested one
RECURSIVE find_chosen_Last(_, _, _, _)
find_chosen_Last(table, prev, solution, k) ==
    IF k > Len(prev) THEN 0
    ELSE LET later == find_chosen_Last(table, prev, solution, k + 1)
         IN  IF later # 0 THEN later
             ELSE IF allclose(solution, table[prev[k]].objectives) THEN prev[k] ELSE 0

\* choose, lines 356-362: the first previous solution close to the
\* requested one, 0 when there is none
RECURSIVE find_chosen(_, _, _, _)
find_chosen(table, prev, solution, k) ==
    IF k > Len(prev) THEN 0
    ELSE IF allclose(solution, table[prev[k]].objectives) THEN prev[k]
         ELSE find_chosen(table, prev, solution, k + 1)

\* choose, lines 347-364, for a request with this solution
choose_request(t, solution) ==
    /\ pc[t] = "idle"
    /\ LET prev == read_solutions_from_db(archive, NimbusMethod)
           d == find_chosen(archive, prev, solution, 1)
       IN  IF prev = <<>> \/ d = 0
           THEN Respond(t, "404")
           ELSE /\ archive' = [archive EXCEPT ![d].chosen = TRUE]
                /\ response' = [response EXCEPT ![t] = "200"]
                /\ UNCHANGED <<pc, previous_solutions, results, last_batch, preferences>>
                /\ UNCHANGED method_vars

choose(t) == \E solution \in RequestedVectors : choose_request(t, solution)

\* ------------------------------------------------------------------------
\* desdeo.mcdm.nimbus: problems, points and results
\* ------------------------------------------------------------------------
\* the objectives f_1, f_2 and the variables x_1, x_2 of the two-objective
\* test problems (binh_and_korn)
ObjectiveSymbols == <<"f_1", "f_2">>
VariableSymbols == <<"x_1", "x_2">>

Objective(sym, max, bounds) ==
    [symbol |-> sym, maximize |-> max, ideal |-> bounds[1], nadir |-> bounds[2]]

\* <<ideal, nadir>> of an objective: defined either way round, nearly equal,
\* or undefined
ObjectiveBounds ==
    { <<Some(100000), Some(300000)>>, <<Some(300000), Some(100000)>>,
      <<Some(100000), Some(100001)>>,
      <<None, Some(300000)>>, <<Some(100000), None>>, <<None, None>> }

FirstObjectives ==
    { Objective(ObjectiveSymbols[1], m, b) : m \in BOOLEAN, b \in ObjectiveBounds }

SecondObjectives ==
    { Objective(ObjectiveSymbols[2], FALSE, <<Some(100000), Some(300000)>>),
      Objective(ObjectiveSymbols[2], TRUE, <<Some(300000), Some(100000)>>),
      Objective(ObjectiveSymbols[2], FALSE, <<None, Some(300000)>>) }

\* a Problem: its objectives, its variables, its constraints and the
\* scalarizations added so far
Problems ==
    { [objectives |-> <<o1, o2>>, variables |-> VariableSymbols, constraints |-> <<>>,
       scalarizations |-> <<>>]
        : o1 \in FirstObjectives, o2 \in SecondObjectives }

\* objective dicts (symbol -> value); a dict may lack entries
ObjectiveDicts(values) ==
    UNION { [D -> values] : D \in SUBSET { ObjectiveSymbols[k] : k \in 1..Len(ObjectiveSymbols) } }

\* reference and current points given to infer_classifications
Points == ObjectiveDicts({100000, 100001, 200000, 200001, 300000})

\* reference and current points given to solve_sub_problems and
\* generate_starting_point
CoarsePoints == ObjectiveDicts({100000, 200000, 300000})

\* decision vectors given to solve_intermediate_solutions
Solutions == [ { VariableSymbols[k] : k \in 1..Len(VariableSymbols) } -> 0..2 ]

Returned(v) == [status |-> "returned", value |-> v]
Raised(e) == [status |-> "raised", error |-> e]

\* Problem.get_ideal_point / get_nadir_point: a dict from objective symbol
\* to the objective's ideal (nadir) value, None when it is undefined
get_ideal_point(problem) ==
    [s \in { problem.objectives[k].symbol : k \in 1..Len(problem.objectives) } |->
        (CHOOSE o \in { problem.objectives[k] : k \in 1..Len(problem.objectives) } :
            o.symbol = s).ideal]

get_nadir_point(problem) ==
    [s \in { problem.objectives[k].symbol : k \in 1..Len(problem.objectives) } |->
        (CHOOSE o \in { problem.objectives[k] : k \in 1..Len(problem.objectives) } :
            o.symbol = s).nadir]

\* Python's `None in d` on a dict d tests the KEYS of d; the keys of the
\* ideal and nadir dicts are the objective symbols
NoneKey == "None"
none_in(d) == NoneKey \in DOMAIN d

\* all(obj.symbol in point for obj in problem.objectives)
has_all_entries(problem, point) ==
    \A k \in 1..Len(problem.objectives) : problem.objectives[k].symbol \in DOMAIN point

\* ---- infer_classifications ---------------------------------------------
Class(c, level) == [kind |-> "class", cls |-> c, level |-> level]

\* lines 199-218: the reference value is an aspiration or a reservation
\* level; the else branch assigns no classification
limit_class_MinimizeOnly(obj, ref, cur) ==
    IF ref < cur THEN Class("<=", Some(ref))
    ELSE IF ref > cur THEN Class(">=", Some(ref))
    ELSE [kind |-> "fallthrough"]

limit_class_NoMaximize(obj, ref, cur) ==
    IF ~obj.maximize /\ ref < cur THEN Class("<=", Some(ref))
    ELSE IF ~obj.maximize /\ ref > cur THEN Class(">=", Some(ref))
    ELSE [kind |-> "fallthrough"]

limit_class(obj, ref, cur) ==
    IF ~obj.maximize /\ ref < cur THEN Class("<=", Some(ref))
    ELSE IF ~obj.maximize /\ ref > cur THEN Class(">=", Some(ref))
    ELSE IF obj.maximize /\ ref < cur THEN Class(">=", Some(ref))
    ELSE IF obj.maximize /\ ref > cur THEN Class("<=", Some(ref))
    ELSE [kind |-> "fallthrough"]

\* lines 190-198: np.isclose against nadir, ideal and current, in this
\* order; np.isclose(x, None) raises TypeError
classify_IdealFirst(obj, ref, cur) ==
    IF obj.ideal = None THEN [kind |-> "TypeError"]
    ELSE IF isclose(ref, ValueOf(obj.ideal)) THEN Class("<", None)
    ELSE IF obj.nadir = None THEN [kind |-> "TypeError"]
    ELSE IF isclose(ref, ValueOf(obj.nadir)) THEN Class("0", None)
    ELSE IF isclose(ref, cur) THEN Class("=", None)
    ELSE limit_class(obj, ref, cur)

classify(obj, ref, cur) ==
    IF obj.nadir = None THEN [kind |-> "TypeError"]
    ELSE IF isclose(ref, ValueOf(obj.nadir)) THEN Class("0", None)
    ELSE IF obj.ideal = None THEN [kind |-> "TypeError"]
    ELSE IF isclose(ref, ValueOf(obj.ideal)) THEN Class("<", None)
    ELSE IF isclose(ref, cur) THEN Class("=", None)
    ELSE limit_class(obj, ref, cur)

\* classifications |= classification
Update(d, key, value) ==
    [s \in DOMAIN d \cup {key} |-> IF s = key THEN value ELSE d[s]]

EmptyDict == [s \in {} |-> None]

\* lines 187-221: the loop; `classification` keeps the dict of the previous
\* objective when no branch assigns it, and is unbound before the first
RECURSIVE classify_all(_, _, _, _, _, _)
classify_all(problem, cur, ref, k, classifications, classification) ==
    IF k > Len(problem.objectives) THEN Returned(classifications)
    ELSE LET obj == problem.objectives[k]
             c == classify(obj, ref[obj.symbol], cur[obj.symbol])
         IN  IF c.kind = "TypeError" THEN Raised("TypeError")
             ELSE IF c.kind = "fallthrough"
             THEN IF ~classification.bound THEN Raised("UnboundLocalError")
                  ELSE classify_all(problem, cur, ref, k + 1,
                           Update(classifications, classification.symbol, classification.value),
                           classification)
             ELSE classify_all(problem, cur, ref, k + 1,
                      Update(classifications, obj.symbol, [cls |-> c.cls, level |-> c.level]),
                      [bound |-> TRUE, symbol |-> obj.symbol,
                       value |-> [cls |-> c.cls, level |-> c.level]])

infer_classifications(problem, cur, ref) ==
    IF none_in(get_ideal_point(problem)) \/ none_in(get_nadir_point(problem))
    THEN Raised("NimbusError")
    ELSE IF ~has_all_entries(problem, ref) THEN Raised("NimbusError")
    ELSE IF ~has_all_entries(problem, cur) THEN Raised("NimbusError")
    ELSE classify_all(problem, cur, ref, 1, EmptyDict, [bound |-> FALSE])

\* ---- scalarization builders and solvers --------------------------------
\* the problem has an objective without ideal or without nadir value
has_undefined_bounds(problem) ==
    \E k \in 1..Len(problem.objectives) :
        problem.objectives[k].ideal = None \/ problem.objectives[k].nadir = None

\* Problem.add_scalarization: a copy of the problem with one more scalarization
add_scalarization(problem, sf) ==
    [problem EXCEPT !.scalarizations = Append(@, sf)]

\* add_nimbus_sf_diff, add_stom_sf_diff, add_asf_diff, add_guess_sf_diff:
\* (problem, symbol, preference) -> (problem with the scalarization, symbol);
\* ScalarizationError when ideal or nadir is undefined
add_sf_diff(problem, sf) ==
    IF has_undefined_bounds(problem) THEN Raised("ScalarizationError")
    ELSE Returned(add_scalarization(problem, sf))

\* init_solver(problem).solve(target): the solver backend is opaque; its
\* result is identified by the problem and the target it was given, and it
\* reports success or failure in the result
solver_solve(problem, target, ok) ==
    [success |-> ok, problem |-> problem, target |-> target]

SolverCall(problem, target) == [problem |-> problem, target |-> target]

\* a loop that gives up at the first failed result
RECURSIVE solve_each_RaiseOnFailure(_, _, _, _, _, _)
solve_each_RaiseOnFailure(problem, todo, k, solutions, log, failing) ==
    IF k > Len(todo) THEN [outcome |-> Returned(solutions), log |-> log]
    ELSE LET built == add_sf_diff(problem, todo[k])
         IN  IF built.status = "raised" THEN [outcome |-> built, log |-> log]
             ELSE IF Len(log) + 1 = failing
             THEN [outcome |-> Raised("NimbusError"),
                   log |-> Append(log, SolverCall(built.value, todo[k].symbol))]
             ELSE solve_each_RaiseOnFailure(problem, todo, k + 1,
                      Append(solutions, solver_solve(built.value, todo[k].symbol, TRUE)),
                      Append(log, SolverCall(built.value, todo[k].symbol)), failing)

\* one scalarization after the other: build it on `problem`, create the
\* solver, solve, append the result (nimbus.py lines 104-115 and 303-352);
\* `failing` is the number of the solver call whose result has success=false
\* (0: none)
RECURSIVE solve_each(_, _, _, _, _, _)
solve_each(problem, todo, k, solutions, log, failing) ==
    IF k > Len(todo) THEN [outcome |-> Returned(solutions), log |-> log]
    ELSE LET built == add_sf_diff(problem, todo[k])
         IN  IF built.status = "raised" THEN [outcome |-> built, log |-> log]
             ELSE solve_each(problem, todo, k + 1,
                      Append(solutions, solver_solve(built.value, todo[k].symbol,
                                                     Len(log) + 1 # failing)),
                      Append(log, SolverCall(built.value, todo[k].symbol)), failing)

\* ---- solve_sub_problems ------------------------------------------------
NimbusSF(classifications, cur) ==
    [kind |-> "NIMBUS", symbol |-> "nimbus_sf",
     preference |-> [classifications |-> classifications, current_objectives |-> cur]]

ReferencePointSF(kind, symbol, ref) ==
    [kind |-> kind, symbol |-> symbol, preference |-> [reference_point |-> ref]]

\* a solve_sub_problems that solves STOM first
scalarizations_to_solve_StomFirst(classifications, cur, ref, num_desired) ==
    <<ReferencePointSF("STOM", "stom_sf", ref)>>
    \o (IF num_desired > 1 THEN <<NimbusSF(classifications, cur)>> ELSE <<>>)
    \o (IF num_desired > 2 THEN <<ReferencePointSF("ASF", "asf", ref)>> ELSE <<>>)
    \o (IF num_desired > 3 THEN <<ReferencePointSF("GUESS", "guess_sf", ref)>> ELSE <<>>)

\* lines 300-352: NIMBUS always, then STOM, ASF and GUESS by num_desired
scalarizations_to_solve(classifications, cur, ref, num_desired) ==
    <<NimbusSF(classifications, cur)>>
    \o (IF num_desired > 1 THEN <<ReferencePointSF("STOM", "stom_sf", ref)>> ELSE <<>>)
    \o (IF num_desired > 2 THEN <<ReferencePointSF("ASF", "asf", ref)>> ELSE <<>>)
    \o (IF num_desired > 3 THEN <<ReferencePointSF("GUESS", "guess_sf", ref)>> ELSE <<>>)

\* a solve_sub_problems that solves the reference point scalarizations
\* before it looks at the current point
solve_sub_problems_ValidateLate(problem, cur, ref, num_desired, failing) ==
    IF ~has_all_entries(problem, ref)
    THEN [outcome |-> Raised("NimbusError"), log |-> <<>>]
    ELSE LET early == solve_each(problem, <<ReferencePointSF("STOM", "stom_sf", ref)>>,
                                 1, <<>>, <<>>, failing)
         IN  IF early.outcome.status = "raised" THEN early
             ELSE IF ~has_all_entries(problem, cur)
             THEN [outcome |-> Raised("NimbusError"), log |-> early.log]
             ELSE LET classifications == infer_classifications(problem, cur, ref)
                  IN  IF classifications.status = "raised"
                      THEN [outcome |-> classifications, log |-> early.log]
                      ELSE solve_each(problem,
                               <<NimbusSF(classifications.value, cur)>>,
                               1, early.outcome.value, early.log, failing)

solve_sub_problems(problem, cur, ref, num_desired, failing) ==
    IF none_in(get_ideal_point(problem)) \/ none_in(get_nadir_point(problem))
    THEN [outcome |-> Raised("NimbusError"), log |-> <<>>]
    ELSE IF ~has_all_entries(problem, ref)
    THEN [outcome |-> Raised("NimbusError"), log |-> <<>>]
    ELSE IF ~has_all_entries(problem, cur)
    THEN [outcome |-> Raised("NimbusError"), log |-> <<>>]
    ELSE LET classifications == infer_classifications(problem, cur, ref)
         IN  IF classifications.status = "raised"
             THEN [outcome |-> classifications, log |-> <<>>]
             ELSE solve_each(problem,
                      scalarizations_to_solve(classifications.value, cur, ref, num_desired),
                      1, <<>>, <<>>, failing)

\* ---- solve_intermediate_solutions --------------------------------------
\* exact fractions num / den stand for the floats of numpy
Fraction(n, d) == [num |-> n, den |-> d]
FractionAdd(a, b) == Fraction(a.num * b.den + b.num * a.den, a.den * b.den)
FractionTimes(i, a) == Fraction(i * a.num, a.den)
FractionEq(a, b) == a.num * b.den = b.num * a.den

\* variable_dict_to_numpy_array: the values in the order of problem.variables
variable_dict_to_numpy_array(problem, solution) ==
    [k \in 1..Len(problem.variables) |-> solution[problem.variables[k]]]

\* a step that divides the difference into num_desired + 1 parts
step_size_OnePartLess(delta, num_desired) ==
    [k \in 1..Len(delta) |-> Fraction(delta[k], 1 + num_desired)]

\* line 86: step_size = delta / (2 + num_desired)
step_size(delta, num_desired) ==
    [k \in 1..Len(delta) |-> Fraction(delta[k], 2 + num_desired)]

\* line 88: solution_2_arr + i * step_size for i in range(1, num_desired + 1)
intermediate_points(solution_1_arr, solution_2_arr, num_desired) ==
    LET delta == [k \in 1..Len(solution_1_arr) |-> solution_1_arr[k] - solution_2_arr[k]]
        step == step_size(delta, num_desired)
    IN  [i \in 1..num_desired |->
            [k \in 1..Len(solution_2_arr) |->
                FractionAdd(Fraction(solution_2_arr[k], 1), FractionTimes(i, step[k]))]]

\* GenericEvaluator.evaluate on the test objectives f_1 = 2 x_1 + x_2 and
\* f_2 = x_1 - 3 x_2
ObjectiveCoefficients == [f_1 |-> <<2, 1>>, f_2 |-> <<1, 0 - 3>>]

evaluate(problem, x) ==
    [s \in { problem.objectives[k].symbol : k \in 1..Len(problem.objectives) } |->
        FractionAdd(FractionTimes(ObjectiveCoefficients[s][1], x[1]),
                    FractionTimes(ObjectiveCoefficients[s][2], x[2]))]

solve_intermediate_solutions(problem, solution_1, solution_2, num_desired, failing) ==
    IF num_desired < 1
    THEN [outcome |-> Raised("NimbusError"), log |-> <<>>, evaluated |-> <<>>]
    ELSE LET points == intermediate_points(
                           variable_dict_to_numpy_array(problem, solution_1),
                           variable_dict_to_numpy_array(problem, solution_2),
                           num_desired)
             todo == [i \in 1..num_desired |->
                         ReferencePointSF("ASF", "target", evaluate(problem, points[i]))]
             solved == solve_each(problem, todo, 1, <<>>, <<>>, failing)
         IN  [outcome |-> solved.outcome, log |-> solved.log, evaluated |-> points]

\* ---- generate_starting_point -------------------------------------------
\* a default that takes the missing components from the nadir point
fill_reference_point_FromNadir(problem, reference_point) ==
    LET given == IF reference_point = None THEN EmptyDict ELSE ValueOf(reference_point)
        nadir == get_nadir_point(problem)
    IN  [s \in DOMAIN given \cup DOMAIN nadir |->
            IF s \in DOMAIN given THEN Some(given[s]) ELSE nadir[s]]

\* lines 398-402: the missing components are taken from the ideal point
fill_reference_point(problem, reference_point) ==
    LET given == IF reference_point = None THEN EmptyDict ELSE ValueOf(reference_point)
        ideal == get_ideal_point(problem)
    IN  [s \in DOMAIN given \cup DOMAIN ideal |->
            IF s \in DOMAIN given THEN Some(given[s]) ELSE ideal[s]]

generate_starting_point(problem, reference_point, failing) ==
    IF none_in(get_ideal_point(problem)) \/ none_in(get_nadir_point(problem))
    THEN [outcome |-> Raised("NimbusError"), log |-> <<>>]
    ELSE LET solved == solve_each(problem,
                           <<ReferencePointSF("ASF", "asf",
                                 fill_reference_point(problem, reference_point))>>,
                           1, <<>>, <<>>, failing)
         IN  IF solved.outcome.status = "raised" THEN solved
             ELSE [outcome |-> Returned(solved.outcome.value[1]), log |-> solved.log]

\* ---- calls -------------------------------------------------------------
NoCall == [fn |-> "none"]

InitMethod ==
    /\ call = NoCall
    /\ outcome = [status |-> "none"]
    /\ solver_log = <<>>
    /\ evaluated = <<>>
    /\ heap = <<>>

call_infer_classifications ==
    /\ call = NoCall
    /\ \E problem \in Problems, cur \in Points, ref \in Points :
        /\ call' = [fn |-> "infer_classifications", problem |-> problem,
                    current_objectives |-> cur, reference_point |-> ref]
        /\ outcome' = infer_classifications(problem, cur, ref)
    /\ UNCHANGED <<solver_log, evaluated, heap>>
    /\ UNCHANGED router_vars

call_solve_sub_problems ==
    /\ call = NoCall
    /\ \E problem \in Problems, cur \in CoarsePoints, ref \in CoarsePoints, n \in 0..5,
          failing \in 0..4 :
        LET r == solve_sub_problems(problem, cur, ref, n, failing)
        IN  /\ call' = [fn |-> "solve_sub_problems", problem |-> problem,
                        current_objectives |-> cur, reference_point |-> ref,
                        num_desired |-> n, failing |-> failing]
            /\ outcome' = r.outcome
            /\ solver_log' = r.log
    /\ UNCHANGED <<evaluated, heap>>
    /\ UNCHANGED router_vars

\* the problems given to solve_intermediate_solutions
IntermediateProblems ==
    { p \in Problems : /\ ~p.objectives[1].maximize
                       /\ p.objectives[1].ideal # None
                       /\ p.objectives[2].maximize }

call_solve_intermediate_solutions ==
    /\ call = NoCall
    /\ \E problem \in IntermediateProblems, s1 \in Solutions, s2 \in Solutions,
          n \in 0..MaxNumDesired, failing \in 0..MaxNumDesired :
        LET r == solve_intermediate_solutions(problem, s1, s2, n, failing)
        IN  /\ call' = [fn |-> "solve_intermediate_solutions", problem |-> problem,
                        solution_1 |-> s1, solution_2 |-> s2, num_desired |-> n,
                        failing |-> failing]
            /\ outcome' = r.outcome
            /\ solver_log' = r.log
            /\ evaluated' = r.evaluated
    /\ UNCHANGED heap
    /\ UNCHANGED router_vars

call_generate_starting_point ==
    /\ call = NoCall
    /\ \E problem \in Problems, ref \in {None} \cup { Some(p) : p \in CoarsePoints } :
        LET r == generate_starting_point(problem, ref, 0)
        IN  /\ call' = [fn |-> "generate_starting_point", problem |-> problem,
                        reference_point |-> ref]
            /\ outcome' = r.outcome
            /\ solver_log' = r.log
    /\ UNCHANGED <<evaluated, heap>>
    /\ UNCHANGED router_vars

\* ---- desdeo.problem.testproblems ---------------------------------------
\* binh_and_korn, lines 49-72 and 94-101: the two objectives, with the sign
\* of func, the direction, the ideal and the nadir value (plain numbers);
\* the nadir of f_2 is chosen by maximize[0]
binh_and_korn(maximize) ==
    [objectives |->
        <<[symbol |-> "f_1",
           func |-> (IF maximize[1] THEN "-" ELSE "") \o "(c_1 * x_1**2 + c_1*x_2**2)",
           maximize |-> maximize[1],
           ideal |-> Some(0),
           nadir |-> Some(IF ~maximize[1] THEN 140 ELSE -140)],
          [symbol |-> "f_2",
           func |-> (IF maximize[2] THEN "-" ELSE "") \o "((x_1 - c_2)**2 + (x_2 - c_2)**2)",
           maximize |-> maximize[2],
           ideal |-> Some(0),
           nadir |-> Some(IF ~maximize[1] THEN 50 ELSE -50)]>>,
     variables |-> <<"x_1", "x_2">>,
     constraints |-> <<"g_1", "g_2">>,
     scalarizations |-> <<>>]

call_binh_and_korn ==
    /\ call = NoCall
    /\ \E maximize \in [1..2 -> BOOLEAN] :
        /\ call' = [fn |-> "binh_and_korn", maximize |-> maximize]
        /\ outcome' = Returned(binh_and_korn(maximize))
    /\ UNCHANGED <<solver_log, evaluated, heap>>
    /\ UNCHANGED router_vars

\* the caller takes the outcome; the next call starts afresh
call_return ==
    /\ call # NoCall
    /\ call' = NoCall
    /\ outcome' = [status |-> "none"]
    /\ solver_log' = <<>>
    /\ evaluated' = <<>>
    /\ UNCHANGED heap
    /\ UNCHANGED router_vars

\* no request in flight, no preference recorded
IdleThreads ==
    /\ preferences = <<>>
    /\ pc = [t \in Threads |-> "idle"]
    /\ previous_solutions = [t \in Threads |-> <<>>]
    /\ results = [t \in Threads |-> <<>>]
    /\ response = [t \in Threads |-> "none"]
    /\ last_batch = {}

\* the archive before the first request: empty, or seeded with a reference
\* solution as utopia2_db_init.py does
InitArchive ==
    /\ archive \in { <<>> } \cup { <<SeedRow(o)>> : o \in ObjectiveVectors }
    /\ IdleThreads

Init == InitArchive /\ InitMethod

\* requests served one after the other
NextSequential == Handler(1)

\* two requests served concurrently by the thread pool
NextConcurrent == \E t \in Threads : Handler(t)

Spec == Init /\ [][NextSequential]_vars

\* the concurrent requests start from the archive seeded by utopia2_db_init.py
InitConcurrent ==
    /\ archive = <<SeedRow(<<100000, 5>>)>>
    /\ IdleThreads
    /\ InitMethod

SpecConcurrent == InitConcurrent /\ [][NextConcurrent]_vars

\* a session: requests to all the endpoints, served one after the other
NextSession ==
    \/ init_nimbus(1)
    \/ iterate_read(1)
    \/ iterate_solve(1)
    \/ iterate_save(1)
    \/ intermediate(1)
    \/ save(1)
    \/ choose(1)

InitSession ==
    /\ archive \in { <<>>, <<SeedRow(<<100000, 5>>)>> }
    /\ IdleThreads
    /\ InitMethod

SpecSession == InitSession /\ [][NextSession]_vars

\* a session on a table that also holds an entry stored for the same problem
\* and user under another method
OtherMethod == "OTHER"

OtherRow(objs) == [SeedRow(objs) EXCEPT !.method = OtherMethod]

InitKeys ==
    /\ archive \in
          { <<OtherRow(o)>> : o \in ObjectiveVectors }
          \cup { <<OtherRow(o), SeedRow(<<100000, 5>>)>> : o \in ObjectiveVectors }
          \cup { <<SeedRow(<<100000, 5>>), OtherRow(o)>> : o \in ObjectiveVectors }
    /\ IdleThreads
    /\ InitMethod

SpecKeys == InitKeys /\ [][NextSession]_vars

\* save_results_to_db applied to the tables, for a request of each class
store(request_type) ==
    /\ Len(preferences) < MaxPreferences
    /\ \E batch \in Batches :
        LET db == save_results_to_db(archive, preferences,
                                     read_solutions_from_db(archive, NimbusMethod),
                                     request_type, NimbusMethod, batch)
        IN  /\ Len(db.archive) <= MaxArchive
            /\ archive' = db.archive
            /\ preferences' = db.preferences
    /\ UNCHANGED <<pc, previous_solutions, results, response, last_batch>>
    /\ UNCHANGED method_vars

NextStore ==
    \/ store("InitRequest")
    \/ store("NIMBUSIterateRequest")
    \/ store("NIMBUSIntermediateSolutionRequest")

SpecStore == Init /\ [][NextStore]_vars

\* calls of the functions of desdeo.mcdm.nimbus, one after the other
InitFunctions ==
    /\ archive = <<>>
    /\ IdleThreads
    /\ InitMethod

NextFunctions ==
    \/ call_infer_classifications
    \/ call_solve_sub_problems
    \/ call_solve_intermediate_solutions
    \/ call_generate_starting_point
    \/ call_binh_and_korn
    \/ call_return

SpecFunctions == InitFunctions /\ [][NextFunctions]_vars

\* ------------------------------------------------------------------------
\* desdeo.tools.scalarization: the scalarization builders
\* ------------------------------------------------------------------------
\* the caller holds at most MaxProblems Problem objects
MaxProblems == 3

\* numbers in the expressions of this part are counted in hundredths
Unit == 100

\* an expression as the parser reads the text of a func (or as the list the
\* code builds): an operator and its operands
Node(op, args) == [op |-> op, args |-> args]
Lit(v) == Node("Lit", <<v>>)
Sym(name) == Node("Sym", <<name>>)

\* a keyword parameter written into the text by its value (delta, rho)
Param(name) == Node("Param", <<name>>)

\* f"{obj.symbol}_min"
MinSymbol(symbol) == symbol \o "_min"

\* f"{x}{1}": a float with one fractional digit directly followed by the
\* digit 1 reads as one number, e.g. 2.5 and 1 as 2.51, -1.5 and 1 as -1.51
NumberFollowedBy1(x) == IF x >= 0 THEN x + 1 ELSE x - 1

ScalarizationFunction(name, symbol, func) ==
    [name |-> name, symbol |-> symbol, func |-> func]

Constraint(name, symbol, func, cons_type) ==
    [name |-> name, symbol |-> symbol, func |-> func, cons_type |-> cons_type]

\* what a builder call yields: its outcome and the heap after it
Built(h, problem_id, symbol) ==
    [outcome |-> Returned([problem |-> problem_id, symbol |-> symbol]), heap |-> h]

Failed(h, error) == [outcome |-> Raised(error), heap |-> h]

\* Problem.add_scalarization and Problem.add_constraints: a new Problem
\* object with the scalarization (the constraints) added at the end
Problem_add_scalarization(h, id, sf) ==
    [heap |-> Append(h, add_scalarization(h[id], sf)), id |-> Len(h) + 1]

Problem_add_constraints(h, id, constraints) ==
    [heap |-> Append(h, [h[id] EXCEPT !.constraints = @ \o constraints]), id |-> Len(h) + 1]

\* a model_copy that updates the object it is called on
model_copy_InPlace(h, id, constraints) ==
    [heap |-> [h EXCEPT ![id].constraints = constraints], id |-> id]

\* problem.model_copy(update={"constraints": [...]}): a new object that
\* differs from the copied one in the updated field
model_copy(h, id, constraints) ==
    [heap |-> Append(h, [h[id] EXCEPT !.constraints = constraints]), id |-> Len(h) + 1]

\* lines 91-100: -objective.ideal of an undefined ideal is a TypeError
get_corrected_ideal_and_nadir(problem) ==
    LET objs == { problem.objectives[k] : k \in 1..Len(problem.objectives) }
        of(s) == CHOOSE o \in objs : o.symbol = s
        corrected(o, v) == IF ~o.maximize THEN v ELSE Some(0 - ValueOf(v))
    IN  IF \E o \in objs : o.maximize /\ (o.ideal = None \/ o.nadir = None)
        THEN Raised("TypeError")
        ELSE Returned([ideal |-> [s \in { o.symbol : o \in objs } |-> corrected(of(s), of(s).ideal)],
                       nadir |-> [s \in { o.symbol : o \in objs } |-> corrected(of(s), of(s).nadir)]])

has_none_value(d) == \E s \in DOMAIN d : d[s] = None

\* lines 151, 160, 167: nadir - (ideal - delta)
asf_denominator(c, symbol) ==
    Node("Subtract", <<Lit(ValueOf(c.nadir[symbol])),
                       Node("Subtract", <<Lit(ValueOf(c.ideal[symbol])), Param("delta")>>)>>)

\* line 150
asf_max_operand(obj, c, reference_point) ==
    Node("Divide",
         <<Node("Subtract",
                <<Sym(MinSymbol(obj.symbol)),
                  IF obj.maximize
                  THEN Node("Multiply", <<Lit(reference_point[obj.symbol]), Lit(0 - Unit)>>)
                  ELSE Lit(reference_point[obj.symbol])>>),
           asf_denominator(c, obj.symbol)>>)

\* lines 158-170
asf_aug_operand(obj, c, reference_point, reference_in_aug) ==
    IF ~reference_in_aug
    THEN Node("Divide", <<Sym(MinSymbol(obj.symbol)), asf_denominator(c, obj.symbol)>>)
    ELSE Node("Divide",
              <<Node("Subtract",
                     <<Sym(MinSymbol(obj.symbol)),
                       IF obj.maximize
                       THEN Node("Multiply", <<Lit(reference_point[obj.symbol]), Lit(0 - Unit)>>)
                       ELSE Lit(NumberFollowedBy1(reference_point[obj.symbol]))>>),
                asf_denominator(c, obj.symbol)>>)

\* lines 155, 172, 174 and 239, 253, 256: max_term + rho * (aug_term)
asf_function(max_operands, aug_operands) ==
    Node("Add", <<Node("Max", max_operands),
                  Node("Multiply", <<Param("rho"), Node("Add", aug_operands)>>)>>)

add_asf_nondiff(h, id, symbol, reference_point, reference_in_aug) ==
    LET problem == h[id]
        c == get_corrected_ideal_and_nadir(problem)
    IN  IF ~has_all_entries(problem, reference_point) THEN Failed(h, "ScalarizationError")
        ELSE IF c.status = "raised" THEN Failed(h, c.error)
        ELSE IF has_none_value(c.value.ideal) \/ has_none_value(c.value.nadir)
        THEN Failed(h, "ScalarizationError")
        ELSE LET max_operands == [k \in 1..Len(problem.objectives) |->
                     asf_max_operand(problem.objectives[k], c.value, reference_point)]
                 aug_operands == [k \in 1..Len(problem.objectives) |->
                     asf_aug_operand(problem.objectives[k], c.value, reference_point,
                                     reference_in_aug)]
                 added == Problem_add_scalarization(h, id,
                     ScalarizationFunction("Achievement scalarizing function", symbol,
                                           asf_function(max_operands, aug_operands)))
             IN  Built(added.heap, added.id, symbol)

\* line 236
generic_max_operand(obj, reference_point, weights) ==
    Node("Divide",
         <<Node("Subtract",
                <<Sym(MinSymbol(obj.symbol)),
                  Node("Multiply", <<Lit(reference_point[obj.symbol]),
                                     Lit(IF obj.maximize THEN 0 - Unit ELSE Unit)>>)>>),
           Lit(weights[obj.symbol])>>)

\* lines 242-251
generic_aug_operand(obj, reference_point, weights, reference_in_aug) ==
    IF ~reference_in_aug
    THEN Node("Divide", <<Sym(MinSymbol(obj.symbol)), Lit(weights[obj.symbol])>>)
    ELSE Node("Divide",
              <<Node("Multiply",
                     <<Node("Subtract", <<Sym(MinSymbol(obj.symbol)),
                                          Lit(reference_point[obj.symbol])>>),
                       Lit(IF obj.maximize THEN 0 - Unit ELSE Unit)>>),
                Lit(weights[obj.symbol])>>)

add_asf_generic_nondiff(h, id, symbol, reference_point, weights, reference_in_aug) ==
    LET problem == h[id]
        c == get_corrected_ideal_and_nadir(problem)
    IN  IF ~has_all_entries(problem, reference_point) THEN Failed(h, "ScalarizationError")
        ELSE IF ~has_all_entries(problem, weights) THEN Failed(h, "ScalarizationError")
        ELSE IF c.status = "raised" THEN Failed(h, c.error)
        ELSE IF has_none_value(c.value.ideal) \/ has_none_value(c.value.nadir)
        THEN Failed(h, "ScalarizationError")
        ELSE LET max_operands == [k \in 1..Len(problem.objectives) |->
                     generic_max_operand(problem.objectives[k], reference_point, weights)]
                 aug_operands == [k \in 1..Len(problem.objectives) |->
                     generic_aug_operand(problem.objectives[k], reference_point, weights,
                                         reference_in_aug)]
                 added == Problem_add_scalarization(h, id,
                     ScalarizationFunction("Generic achievement scalarizing function", symbol,
                                           asf_function(max_operands, aug_operands)))
             IN  Built(added.heap, added.id, symbol)

add_weighted_sums(h, id, symbol, weights) ==
    LET problem == h[id]
    IN  IF ~has_all_entries(problem, weights) THEN Failed(h, "ScalarizationError")
        ELSE LET sum_terms == [k \in 1..Len(problem.objectives) |->
                     Node("Multiply", <<Lit(weights[problem.objectives[k].symbol]),
                                        Sym(MinSymbol(problem.objectives[k].symbol))>>)]
                 added == Problem_add_scalarization(h, id,
                     ScalarizationFunction("Weighted sums scalarization function", symbol,
                                           Node("Add", sum_terms)))
             IN  Built(added.heap, added.id, symbol)

is_objective(problem, objective_symbol) ==
    \E k \in 1..Len(problem.objectives) : problem.objectives[k].symbol = objective_symbol

add_objective_as_scalarization(h, id, symbol, objective_symbol) ==
    IF ~is_objective(h[id], objective_symbol) THEN Failed(h, "ScalarizationError")
    ELSE LET added == Problem_add_scalarization(h, id,
                 ScalarizationFunction("Objective " \o objective_symbol, symbol,
                     Node("Multiply", <<Lit(Unit), Sym(MinSymbol(objective_symbol))>>)))
         IN  Built(added.heap, added.id, symbol)

\* the objects the caller holds after a call that made the objects of r.heap:
\* its own and the returned one
held(h, r) ==
    IF r.id <= Len(h) THEN [heap |-> SubSeq(r.heap, 1, Len(h)), id |-> r.id]
    ELSE [heap |-> Append(SubSeq(r.heap, 1, Len(h)), r.heap[r.id]), id |-> Len(h) + 1]

\* a filter that keeps the target as well
other_objectives_All(problem, objective_symbol) == problem.objectives

\* the objectives other than the target, in the order of problem.objectives
other_objectives(problem, objective_symbol) ==
    SelectSeq(problem.objectives, LAMBDA o : o.symbol # objective_symbol)

\* lines 376-385
epsilon_constraints(problem, constraint_symbols, objective_symbol, epsilons) ==
    LET others == other_objectives(problem, objective_symbol)
    IN  [k \in 1..Len(others) |->
            Constraint("Epsilon for " \o others[k].symbol,
                       constraint_symbols[others[k].symbol],
                       Node("Add", <<Sym(MinSymbol(others[k].symbol)),
                                     Node("Negate", <<Lit(epsilons[others[k].symbol])>>)>>),
                       "LTE")]

add_epsilon_constraints(h, id, symbol, constraint_symbols, objective_symbol, epsilons) ==
    IF ~is_objective(h[id], objective_symbol) THEN Failed(h, "ScalarizationError")
    ELSE LET scalarized == add_objective_as_scalarization(h, id, symbol, objective_symbol)
             others == other_objectives(h[id], objective_symbol)
         IN  IF \E k \in 1..Len(others) : \/ others[k].symbol \notin DOMAIN constraint_symbols
                                         \/ others[k].symbol \notin DOMAIN epsilons
             THEN Failed(SubSeq(scalarized.heap, 1, Len(h)), "KeyError")
             ELSE LET constraints == epsilon_constraints(h[id], constraint_symbols,
                                                         objective_symbol, epsilons)
                      added == held(h, Problem_add_constraints(scalarized.heap,
                                           scalarized.outcome.value.problem, constraints))
                  IN  [outcome |-> Returned([problem |-> added.id, symbol |-> symbol,
                                             constraints |-> [k \in 1..Len(constraints) |->
                                                                 constraints[k].symbol]]),
                       heap |-> added.heap]

add_scalarization_function(h, id, func, symbol, name) ==
    LET added == Problem_add_scalarization(h, id,
                     ScalarizationFunction(IF name = None THEN symbol ELSE ValueOf(name),
                                           symbol, func))
    IN  Built(added.heap, added.id, symbol)

\* line 484
lengths_mismatch(funcs, symbols, names) ==
    /\ Len(funcs) # Len(symbols)
    /\ names # None
    /\ Len(ValueOf(names)) # Len(funcs)

\* lines 484-509; names[i] or symbols[i] beyond the end is an IndexError
add_lte_constraints(h, id, funcs, symbols, names) ==
    IF lengths_mismatch(funcs, symbols, names) THEN Failed(h, "ScalarizationError")
    ELSE LET names_ == IF names = None THEN [i \in 1..Len(symbols) |-> Some(symbols[i])]
                       ELSE ValueOf(names)
         IN  IF Len(funcs) > Len(names_) \/ Len(funcs) > Len(symbols)
             THEN Failed(h, "IndexError")
             ELSE LET copied == model_copy(h, id,
                          h[id].constraints \o
                          [i \in 1..Len(funcs) |->
                              Constraint(IF names_[i] # None THEN ValueOf(names_[i])
                                         ELSE symbols[i],
                                         symbols[i], funcs[i], "LTE")])
                  IN  [outcome |-> Returned([problem |-> copied.id]), heap |-> copied.heap]

\* ---- the problems and arguments given to the builders -------------------
\* <<ideal, nadir>> of a minimized (maximized) objective: defined or undefined
BuilderBounds(max) ==
    { IF max THEN <<Some(300), Some(100)>> ELSE <<Some(100), Some(300)>>,
      <<None, Some(200)>>, <<Some(200), None>> }

FirstBuilderObjectives ==
    UNION { { Objective("f_1", m, b) : b \in BuilderBounds(m) } : m \in BOOLEAN }

SecondBuilderObjectives ==
    { Objective("f_2", FALSE, <<Some(100), Some(300)>>),
      Objective("f_2", TRUE, <<Some(300), Some(100)>>) }

\* the problems held at the start: two objectives and one constraint
BuilderProblems ==
    { [objectives |-> <<o1, o2>>,
       variables |-> VariableSymbols,
       constraints |-> <<Constraint("con_0", "con_0", Sym("x_1"), "LTE")>>,
       scalarizations |-> <<>>]
        : o1 \in FirstBuilderObjectives, o2 \in SecondBuilderObjectives }

BuilderPoints ==
    { [f_1 |-> 250, f_2 |-> 0 - 150], [f_1 |-> 0 - 150, f_2 |-> 250], [f_1 |-> 250] }

BuilderWeights == { [f_1 |-> 50, f_2 |-> 200], [f_2 |-> 200] }

TargetSymbols == { "f_1", "f_2", "f_3" }

ConstraintFuncs == { <<>>, <<Sym("g_1")>>, <<Sym("g_1"), Sym("g_2")>> }

ConstraintSymbols == { <<>>, <<"con_1">>, <<"con_1", "con_2">> }

ConstraintNames ==
    { None, Some(<<>>), Some(<<Some("first")>>), Some(<<None, Some("second")>>) }

\* ---- calls of the builders ---------------------------------------------
CanBuild == call = NoCall /\ Len(heap) < MaxProblems

BuilderCall(c, r) ==
    /\ call' = c
    /\ outcome' = r.outcome
    /\ heap' = r.heap
    /\ UNCHANGED <<solver_log, evaluated>>
    /\ UNCHANGED router_vars

call_add_asf_nondiff ==
    /\ CanBuild
    /\ \E id \in 1..Len(heap), rp \in BuilderPoints, in_aug \in BOOLEAN :
        BuilderCall([fn |-> "add_asf_nondiff", problem |-> id, symbol |-> "asf",
                     reference_point |-> rp, reference_in_aug |-> in_aug],
                    add_asf_nondiff(heap, id, "asf", rp, in_aug))

call_add_asf_generic_nondiff ==
    /\ CanBuild
    /\ \E id \in 1..Len(heap), rp \in BuilderPoints, w \in BuilderWeights, in_aug \in BOOLEAN :
        BuilderCall([fn |-> "add_asf_generic_nondiff", problem |-> id, symbol |-> "asf_generic",
                     reference_point |-> rp, weights |-> w, reference_in_aug |-> in_aug],
                    add_asf_generic_nondiff(heap, id, "asf_generic", rp, w, in_aug))

call_add_weighted_sums ==
    /\ CanBuild
    /\ \E id \in 1..Len(heap), w \in BuilderWeights :
        BuilderCall([fn |-> "add_weighted_sums", problem |-> id, symbol |-> "ws",
                     weights |-> w],
                    add_weighted_sums(heap, id, "ws", w))

call_add_objective_as_scalarization ==
    /\ CanBuild
    /\ \E id \in 1..Len(heap), target \in TargetSymbols :
        BuilderCall([fn |-> "add_objective_as_scalarization", problem |-> id,
                     symbol |-> "objective", objective_symbol |-> target],
                    add_objective_as_scalarization(heap, id, "objective", target))

call_add_epsilon_constraints ==
    /\ CanBuild
    /\ \E id \in 1..Len(heap), target \in TargetSymbols :
        LET constraint_symbols == [f_1 |-> "eps_1", f_2 |-> "eps_2"]
            epsilons == [f_1 |-> 150, f_2 |-> 0 - 250]
        IN  BuilderCall([fn |-> "add_epsilon_constraints", problem |-> id, symbol |-> "eps",
                         constraint_symbols |-> constraint_symbols,
                         objective_symbol |-> target, epsilons |-> epsilons],
                        add_epsilon_constraints(heap, id, "eps", constraint_symbols,
                                                target, epsilons))

call_add_scalarization_function ==
    /\ CanBuild
    /\ \E id \in 1..Len(heap), name \in { None, Some("custom") } :
        BuilderCall([fn |-> "add_scalarization_function", problem |-> id,
                     func |-> Sym("x_1"), symbol |-> "sf", name |-> name],
                    add_scalarization_function(heap, id, Sym("x_1"), "sf", name))

call_add_lte_constraints ==
    /\ CanBuild
    /\ \E id \in 1..Len(heap), funcs \in ConstraintFuncs, symbols \in ConstraintSymbols,
          names \in ConstraintNames :
        BuilderCall([fn |-> "add_lte_constraints", problem |-> id, funcs |-> funcs,
                     symbols |-> symbols, names |-> names],
                    add_lte_constraints(heap, id, funcs, symbols, names))

\* calls of the builders of desdeo.tools.scalarization, one after the other,
\* on the problems the caller holds
InitBuilders ==
    /\ archive = <<>>
    /\ IdleThreads
    /\ call = NoCall
    /\ outcome = [status |-> "none"]
    /\ solver_log = <<>>
    /\ evaluated = <<>>
    /\ heap \in { <<p>> : p \in BuilderProblems }

NextBuilders ==
    \/ call_add_asf_nondiff
    \/ call_add_asf_generic_nondiff
    \/ call_add_weighted_sums
    \/ call_add_objective_as_scalarization
    \/ call_add_epsilon_constraints
    \/ call_add_scalarization_function
    \/ call_add_lte_constraints
    \/ call_return

SpecBuilders == InitBuilders /\ [][NextBuilders]_vars

\* ------------------------------------------------------------------------
\* desdeo.tools.gurobipy_solver_interfaces, desdeo.tools.pyomo_solver_interfaces
\* ------------------------------------------------------------------------
\* the problems given to the solvers: simple_linear_test_problem, and a
\* problem without constraints
SolverProblems ==
    { [variables |-> <<"x_1", "x_2">>, objectives |-> <<"f_1", "f_2">>, constraints |-> cons] :
        cons \in { <<"g_1">>, <<>> } }

\* the symbols of a list of variables, objectives or constraints
Symbols(list) == { list[k] : k \in 1..Len(list) }

\* the variables and the constraints a caller adds to a persistent solver
ExtraVariables == {"y"}
ExtraConstraints == {"c_test"}

\* gurobipy.GRB status codes
GRB ==
    [LOADED |-> 1, OPTIMAL |-> 2, INFEASIBLE |-> 3, INF_OR_UNBD |-> 4,
     UNBOUNDED |-> 5, TIME_LIMIT |-> 9]

GRBStatuses ==
    {GRB.OPTIMAL, GRB.INFEASIBLE, GRB.INF_OR_UNBD, GRB.UNBOUNDED, GRB.TIME_LIMIT}

\* what a gurobi model is made of, as far as the optimizer is concerned
Content(variables, constraints) == [variables |-> variables, constraints |-> constraints]

ContentOf(problem) == Content(Symbols(problem.variables), Symbols(problem.constraints))

\* the optimizer is deterministic: the status it ends with is a function of
\* the content of the model; one status for the model of the problem, one
\* for the model with anything added
Backends(problem) ==
    { [plain |-> s1, extended |-> s2] : s1 \in GRBStatuses, s2 \in GRBStatuses }

\* GurobipyEvaluator(problem): the model of the problem, not yet optimized
GurobipyEvaluator(problem, backend) ==
    [variables |-> Symbols(problem.variables),
     objectives |-> Symbols(problem.objectives),
     constraints |-> Symbols(problem.constraints),
     target |-> None,
     status |-> GRB.LOADED,
     plain |-> ContentOf(problem),
     backend |-> backend]

\* GurobipyEvaluator.addConstraint, addVariable, removeConstraint,
\* removeVariable, set_optimization_target and get_expression_by_name
addConstraint(evaluator, symbol) ==
    [evaluator EXCEPT !.constraints = @ \cup {symbol}, !.status = GRB.LOADED]

addVariable(evaluator, symbol) ==
    [evaluator EXCEPT !.variables = @ \cup {symbol}, !.status = GRB.LOADED]

removeConstraint(evaluator, symbol) ==
    [evaluator EXCEPT !.constraints = @ \ {symbol}, !.status = GRB.LOADED]

removeVariable(evaluator, symbol) ==
    [evaluator EXCEPT !.variables = @ \ {symbol}, !.status = GRB.LOADED]

set_optimization_target(evaluator, target) ==
    [evaluator EXCEPT !.target = Some(target)]

get_expression_by_name(evaluator, symbol) ==
    IF symbol \in evaluator.variables \cup evaluator.objectives THEN Some(symbol) ELSE None

\* evaluator.model.optimize()
optimize(evaluator) ==
    [evaluator EXCEPT !.status =
        IF Content(evaluator.variables, evaluator.constraints) = evaluator.plain
        THEN evaluator.backend.plain
        ELSE evaluator.backend.extended]

\* the point the optimizer stopped at: opaque, determined by the content of
\* the model and the target
Optimum(evaluator) ==
    [content |-> Content(evaluator.variables, evaluator.constraints),
     target |-> evaluator.target]

\* evaluator.get_values(): the value at that point of every symbol of the model
get_values(evaluator) ==
    [s \in evaluator.variables \cup evaluator.objectives \cup evaluator.constraints |->
        [symbol |-> s, at |-> Optimum(evaluator)]]

\* the values of the symbols of a list, by symbol
ValuesOf(values, list) == [s \in Symbols(list) |-> values[s]]

\* lines 31-40: the text for the status of the model
status_text(status) ==
    IF status = GRB.OPTIMAL THEN "Optimal solution found."
    ELSE IF status = GRB.INFEASIBLE THEN "Model is infeasible."
    ELSE IF status = GRB.UNBOUNDED THEN "Model is unbounded."
    ELSE IF status = GRB.INF_OR_UNBD THEN "Model is either infeasible or unbounded."
    ELSE "Optimization ended with status: " \o ToString(status)

\* a parser that takes INF_OR_UNBD models for solved
parse_success_Lenient(status) == status \in {GRB.OPTIMAL, GRB.INF_OR_UNBD}

\* line 30
parse_success(status) == status = GRB.OPTIMAL

\* parse_gurobipy_optimizer_results, lines 13-51; a symbol of the problem
\* without a value is a KeyError
parse_gurobipy_optimizer_results(problem, evaluator) ==
    LET values == get_values(evaluator)
    IN  IF ~(Symbols(problem.variables) \cup Symbols(problem.objectives)
                \cup Symbols(problem.constraints) \subseteq DOMAIN values)
        THEN Raised("KeyError")
        ELSE Returned(
            [optimal_variables |-> ValuesOf(values, problem.variables),
             optimal_objectives |-> ValuesOf(values, problem.objectives),
             constraint_values |-> Some(ValuesOf(values, problem.constraints)),
             success |-> parse_success(evaluator.status),
             message |-> "Gurobipy solver status is: '" \o status_text(evaluator.status) \o "'"])

\* pyomo.opt SolverStatus and TerminationCondition, by their text
PyomoSolverStatuses == {"ok", "warning", "error", "aborted"}
PyomoTerminationConditions ==
    {"optimal", "infeasible", "unbounded", "infeasibleOrUnbounded", "maxIterations"}

PyomoResults ==
    [status : PyomoSolverStatuses, termination_condition : PyomoTerminationConditions]

\* PyomoEvaluator(problem) after a solve
PyomoEvaluator(problem) ==
    [variables |-> Symbols(problem.variables),
     objectives |-> Symbols(problem.objectives),
     constraints |-> Symbols(problem.constraints),
     target |-> None]

\* parse_pyomo_optimizer_results, lines 90-125
parse_pyomo_optimizer_results(opt_res, problem, evaluator) ==
    LET values == get_values(evaluator)
    IN  Returned(
            [optimal_variables |-> ValuesOf(values, problem.variables),
             optimal_objectives |-> ValuesOf(values, problem.objectives),
             constraint_values |->
                 IF problem.constraints # <<>>
                 THEN Some(ValuesOf(values, problem.constraints)) ELSE None,
             success |-> opt_res.status = "ok" /\ opt_res.termination_condition = "optimal",
             message |-> "Pyomo solver status is: '" \o opt_res.status
                         \o "', with termination condition: '"
                         \o opt_res.termination_condition \o "'."])

\* ---- PersistentGurobipySolver -------------------------------------------
\* __init__, lines 94-107; `done` lists what has been removed from the solver
\* so far and is kept for the properties only
PersistentGurobipySolver(problem, backend) ==
    [problem |-> problem, evaluator |-> GurobipyEvaluator(problem, backend), done |-> {}]

\* add_constraint, lines 109-133, and add_variable, lines 169-192, with one
\* constraint or variable
add_constraint(solver, symbol) ==
    [solver EXCEPT !.evaluator = addConstraint(@, symbol)]

add_variable(solver, symbol) ==
    [solver EXCEPT !.evaluator = addVariable(@, symbol)]

\* lines 205-208: the loop over the symbols
RECURSIVE removeConstraints(_, _)
removeConstraints(evaluator, symbols) ==
    IF symbols = <<>> THEN evaluator
    ELSE removeConstraints(removeConstraint(evaluator, Head(symbols)), Tail(symbols))

\* a removal that handles lists of symbols only
remove_constraint_ListsOnly(solver, symbol) ==
    [solver EXCEPT !.done = @ \cup {symbol}]

\* remove_constraint, lines 194-208: a single symbol is wrapped into a list
remove_constraint(solver, symbol) ==
    [solver EXCEPT !.evaluator = removeConstraints(@, <<symbol>>),
                   !.done = @ \cup {symbol}]

\* remove_variable, lines 210-222
remove_variable(solver, symbol) ==
    [solver EXCEPT !.evaluator = removeVariable(@, symbol),
                   !.done = @ \cup {symbol}]

\* solve, lines 224-235: the solver after the call and the parsed results
solve(solver, target) ==
    LET evaluator == optimize(set_optimization_target(solver.evaluator, target))
    IN  [solver |-> [solver EXCEPT !.evaluator = evaluator],
         outcome |-> parse_gurobipy_optimizer_results(solver.problem, evaluator)]

\* ---- calls -------------------------------------------------------------
\* a call of a method of the solver held as heap[1]
SolverCalled(c, solver, result) ==
    /\ call = NoCall
    /\ call' = c
    /\ outcome' = result
    /\ heap' = <<solver>>
    /\ UNCHANGED <<solver_log, evaluated>>
    /\ UNCHANGED router_vars

call_add_variable ==
    \E symbol \in ExtraVariables \ heap[1].evaluator.variables :
        SolverCalled([fn |-> "add_variable", symbol |-> symbol],
                     add_variable(heap[1], symbol), Returned(symbol))

call_add_constraint ==
    \E symbol \in ExtraConstraints \ heap[1].evaluator.constraints :
        SolverCalled([fn |-> "add_constraint", symbol |-> symbol],
                     add_constraint(heap[1], symbol), Returned(symbol))

call_remove_constraint ==
    \E symbol \in ExtraConstraints \cap heap[1].evaluator.constraints :
        SolverCalled([fn |-> "remove_constraint", symbol |-> symbol],
                     remove_constraint(heap[1], symbol), Returned(None))

call_remove_variable ==
    \E symbol \in ExtraVariables \cap heap[1].evaluator.variables :
        SolverCalled([fn |-> "remove_variable", symbol |-> symbol],
                     remove_variable(heap[1], symbol), Returned(None))

call_solve ==
    \E target \in Symbols(heap[1].problem.objectives) :
        LET r == solve(heap[1], target)
        IN  SolverCalled([fn |-> "solve", target |-> target], r.solver, r.outcome)

call_parse_pyomo_optimizer_results ==
    /\ call = NoCall
    /\ \E opt_res \in PyomoResults :
        SolverCalled([fn |-> "parse_pyomo_optimizer_results", opt_res |-> opt_res,
                      problem |-> heap[1].problem],
                     heap[1],
                     parse_pyomo_optimizer_results(opt_res, heap[1].problem,
                                                   PyomoEvaluator(heap[1].problem)))

InitSolvers ==
    /\ archive = <<>>
    /\ IdleThreads
    /\ call = NoCall
    /\ outcome = [status |-> "none"]
    /\ solver_log = <<>>
    /\ evaluated = <<>>
    /\ \E problem \in SolverProblems : \E backend \in Backends(problem) :
           heap = <<PersistentGurobipySolver(problem, backend)>>

NextSolvers ==
    \/ call_add_variable
    \/ call_add_constraint
    \/ call_remove_constraint
    \/ call_remove_variable
    \/ call_solve
    \/ call_parse_pyomo_optimizer_results
    \/ call_return

SpecSolvers == InitSolvers /\ [][NextSolvers]_vars

\* ------------------------------------------------------------------------
\* Archive reconciliation: claims C1 - C4
\* ------------------------------------------------------------------------
\* thread t completes save_results_to_db in this step
SaveStep(t) == pc[t] = "iterate_save" /\ pc'[t] = "idle"

\* rows of the key before the step
KeyRows == { i \in 1..Len(archive) : archive[i].method = NimbusMethod }

\* rows of the key the j-th result of the batch is approximately equal to
Matches(batch, j) ==
    { i \in KeyRows : allclose(batch[j].optimal_objectives, archive[i].objectives) }

Min(S) == CHOOSE x \in S : \A y \in S : x <= y

\* results that survive the removal of duplicates inside the batch
Kept(batch) ==
    { j \in 1..Len(batch) :
        ~ \E i \in 1..(j - 1) :
            allclose(batch[i].optimal_objectives, batch[j].optimal_objectives) }

KeptNovel(batch) == { j \in Kept(batch) : Matches(batch, j) = {} }

KeptSeen(batch) == { j \in Kept(batch) : Matches(batch, j) # {} }

IsFreshRow(row, res) ==
    /\ row.objectives = res.optimal_objectives
    /\ row.method = NimbusMethod
    /\ row.current /\ ~row.saved /\ ~row.chosen

\* C1 as stated: every result of the batch that is approximately equal to
\* no archive entry is appended as a new entry (current, not saved, not
\* chosen); every result approximately equal to an entry makes such an entry
\* current and appends nothing; every entry that was current and is matched
\* by no result ends not current.
C1_Original ==
    [][\A t \in Threads : SaveStep(t) =>
        LET batch == results[t] IN
        /\ \A j \in 1..Len(batch) : Matches(batch, j) = {} =>
              \E k \in (Len(archive) + 1)..Len(archive') : IsFreshRow(archive'[k], batch[j])
        /\ \A j \in 1..Len(batch) : Matches(batch, j) # {} =>
              /\ \E i \in Matches(batch, j) : archive'[i].current
              /\ ~ \E k \in (Len(archive) + 1)..Len(archive') :
                      archive'[k].objectives = batch[j].optimal_objectives
        /\ \A i \in KeyRows :
              (archive[i].current /\ ~ \E j \in 1..Len(batch) : i \in Matches(batch, j))
                  => ~archive'[i].current
    ]_vars

\* C1 amended: the batch is first reduced by dropping every result that is
\* approximately equal to an earlier result of the batch.  Of the remaining
\* results, those approximately equal to no archive entry are appended, in
\* batch order, as new entries (current, not saved, not chosen) and nothing
\* else is appended; each of the others sets current on the first entry it
\* is approximately equal to; every other entry of the key ends not current.
C1_Reconciliation ==
    [][\A t \in Threads : SaveStep(t) =>
        LET batch == results[t]
            novel == KeptNovel(batch)
            firsts == { Min(Matches(batch, j)) : j \in KeptSeen(batch) }
        IN
        /\ Len(archive') = Len(archive) + Cardinality(novel)
        /\ \A j \in novel :
              IsFreshRow(archive'[Len(archive) + Cardinality({ h \in novel : h <= j })],
                         batch[j])
        /\ \A i \in firsts : archive'[i].current
        /\ \A i \in KeyRows \ firsts : ~archive'[i].current
    ]_vars

\* C1 witness: a save has appended a novel result, re-flagged a seen one and
\* reset a current one
C1_Witness ==
    /\ response[1] = "200"
    /\ Cardinality(last_batch) = 2
    /\ Len(archive) = 3
    /\ ~archive[1].current /\ archive[2].current /\ archive[3].current

\* C2 as stated (idempotent archiving): when the batch of a call and the
\* batch of the call before it both hold a successful result with the
\* objective vector v, then after
\* the reconciliation of the later call the archive has at most one entry
\* with objective vector v, an entry approximately equal to v is current, and
\* the later call has appended no entry with objective vector v.
C2_IdempotentArchiving ==
    [][\A t \in Threads : SaveStep(t) =>
        \A j \in 1..Len(results[t]) :
            LET v == results[t][j].optimal_objectives IN
            (results[t][j].success /\ v \in last_batch) =>
                /\ Cardinality({ i \in 1..Len(archive') : archive'[i].objectives = v }) <= 1
                /\ \E i \in 1..Len(archive') :
                      allclose(v, archive'[i].objectives) /\ archive'[i].current
                /\ ~ \E k \in (Len(archive) + 1)..Len(archive') : archive'[k].objectives = v
    ]_vars

\* C3 as stated, in its consequence for the archive: the key's archive never
\* holds two entries with the same objective vector.
C3_NoDuplicateEntries ==
    \A i, j \in 1..Len(archive) :
        (i < j /\ archive[i].method = archive[j].method)
            => archive[i].objectives # archive[j].objectives

\* C4 as stated: after a reconciliation, every current entry is current on
\* account of a successful result of the batch: it was appended for a
\* successful result, or a successful result is approximately equal to it.
C4_FailedNeverCurrent ==
    [][\A t \in Threads : SaveStep(t) =>
        \A i \in 1..Len(archive') :
            archive'[i].current =>
                \E j \in 1..Len(results[t]) :
                    /\ results[t][j].success
                    /\ allclose(results[t][j].optimal_objectives, archive'[i].objectives)
    ]_vars

\* ------------------------------------------------------------------------
\* The method functions: claims C5 - C10
\* ------------------------------------------------------------------------
\* the call has a problem with ideal and nadir defined and points with an
\* entry for every objective
ValidPoints ==
    /\ ~has_undefined_bounds(call.problem)
    /\ has_all_entries(call.problem, call.reference_point)
    /\ has_all_entries(call.problem, call.current_objectives)

SubProblemTargets == <<"nimbus_sf", "stom_sf", "asf", "guess_sf">>
SubProblemKinds == <<"NIMBUS", "STOM", "ASF", "GUESS">>

\* C5: for num_desired = k in 1..4 solve_sub_problems returns k results and
\* invokes the solver k times; the i-th solver call is given the base problem
\* plus exactly one scalarization, of kind NIMBUS, STOM, ASF, GUESS for
\* i = 1, 2, 3, 4; the NIMBUS one is built from the inferred classifications
\* and the current objectives, the others from the raw reference point; the
\* i-th result is the result of the i-th solver call.
C5_SubProblems ==
    (call.fn = "solve_sub_problems" /\ call.num_desired \in 1..4 /\ ValidPoints) =>
        /\ outcome.status = "returned"
        /\ Len(outcome.value) = call.num_desired
        /\ Len(solver_log) = call.num_desired
        /\ \A i \in 1..Len(solver_log) :
            LET sub == solver_log[i].problem IN
            /\ solver_log[i].target = SubProblemTargets[i]
            /\ [sub EXCEPT !.scalarizations = <<>>] = call.problem
            /\ Len(sub.scalarizations) = 1
            /\ sub.scalarizations[1].kind = SubProblemKinds[i]
            /\ sub.scalarizations[1].symbol = SubProblemTargets[i]
            /\ sub.scalarizations[1].preference =
                 IF i = 1
                 THEN [classifications |->
                          infer_classifications(call.problem, call.current_objectives,
                                                call.reference_point).value,
                       current_objectives |-> call.current_objectives]
                 ELSE [reference_point |-> call.reference_point]
            /\ outcome.value[i] = solver_solve(sub, solver_log[i].target, i # call.failing)

\* C5 witness: a call with num_desired = 4 has returned four results
C5_Witness ==
    /\ call.fn = "solve_sub_problems"
    /\ call.num_desired = 4
    /\ outcome.status = "returned"
    /\ Len(outcome.value) = 4
    /\ Len(solver_log) = 4

\* the k-th objective of the call's problem, its reference and current value
Obj(k) == call.problem.objectives[k]
Ref(k) == call.reference_point[Obj(k).symbol]
Cur(k) == call.current_objectives[Obj(k).symbol]
Nadir(k) == ValueOf(Obj(k).nadir)
Ideal(k) == ValueOf(Obj(k).ideal)
ObjIndices == 1..Len(call.problem.objectives)

\* the classification the call returned for the k-th objective
Got(k) == outcome.value[Obj(k).symbol]

\* C6: infer_classifications decides each objective by the first test that
\* matches: reference ~ nadir gives '0'; otherwise reference ~ ideal gives
\* '<'; otherwise reference ~ current gives '='; otherwise '<=' or '>='.
C6_ClassificationOrder ==
    (call.fn = "infer_classifications" /\ ValidPoints) =>
        /\ outcome.status = "returned"
        /\ \A k \in ObjIndices :
            /\ Obj(k).symbol \in DOMAIN outcome.value
            /\ IF isclose(Ref(k), Nadir(k)) THEN Got(k).cls = "0"
               ELSE IF isclose(Ref(k), Ideal(k)) THEN Got(k).cls = "<"
               ELSE IF isclose(Ref(k), Cur(k)) THEN Got(k).cls = "="
               ELSE Got(k).cls \in {"<=", ">="}

\* C6 witness: a reference value close to nadir, ideal and current at once
\* was classified '0', and one close to ideal and current was classified '<'
C6_Witness ==
    /\ call.fn = "infer_classifications"
    /\ ValidPoints
    /\ outcome.status = "returned"
    /\ isclose(Ref(1), Nadir(1)) /\ isclose(Ref(1), Ideal(1)) /\ isclose(Ref(1), Cur(1))
    /\ Got(1).cls = "0"
    /\ ~isclose(Ref(2), Nadir(2)) /\ isclose(Ref(2), Ideal(2)) /\ isclose(Ref(2), Cur(2))
    /\ Got(2).cls = "<"

Between(x, a, b) == (a <= x /\ x <= b) \/ (b <= x /\ x <= a)

\* C7: with ideal and nadir defined, both points complete and the reference
\* point componentwise between nadir and ideal, infer_classifications returns
\* a dict whose keys are exactly the objective symbols, each with one of the
\* five classes; the level is the objective's reference value for '<=' and
\* '>=' and None otherwise (so no objective fell through unclassified).
C7_ClassificationTotal ==
    (/\ call.fn = "infer_classifications"
     /\ ValidPoints
     /\ \A k \in ObjIndices : Between(Ref(k), Nadir(k), Ideal(k))) =>
        /\ outcome.status = "returned"
        /\ DOMAIN outcome.value = { Obj(k).symbol : k \in ObjIndices }
        /\ \A k \in ObjIndices :
            /\ Got(k).cls \in {"<", "<=", "=", ">=", "0"}
            /\ Got(k).level = IF Got(k).cls \in {"<=", ">="} THEN Some(Ref(k)) ELSE None

\* C7 witness: a maximized and a minimized objective, both classified with
\* a level, for a reference point between nadir and ideal
C7_Witness ==
    /\ call.fn = "infer_classifications"
    /\ ValidPoints
    /\ \A k \in ObjIndices : Between(Ref(k), Nadir(k), Ideal(k))
    /\ outcome.status = "returned"
    /\ Obj(1).maximize /\ Got(1).cls = ">=" /\ Got(1).level = Some(Ref(1))
    /\ ~Obj(2).maximize /\ Got(2).cls = "<=" /\ Got(2).level = Some(Ref(2))

\* the problem with every objective's direction flipped and its ideal and
\* nadir negated; a point negated
Negated(o) == IF o = None THEN None ELSE Some(0 - ValueOf(o))

Flipped(problem) ==
    [problem EXCEPT !.objectives =
        [k \in 1..Len(problem.objectives) |->
            [problem.objectives[k] EXCEPT !.maximize = ~@,
                                          !.ideal = Negated(@),
                                          !.nadir = Negated(@)]]]

NegatedPoint(point) == [s \in DOMAIN point |-> 0 - point[s]]

\* C8: an objective whose reference value is close to none of nadir, ideal
\* and current gets '<=' with the reference as level when the reference is
\* better than current (smaller if minimized, greater if maximized) and '>='
\* with the reference as level when it is worse; and flipping every direction
\* while negating reference, current, ideal and nadir leaves every class
\* unchanged.
C8_LimitClasses ==
    (call.fn = "infer_classifications" /\ ValidPoints) =>
        /\ outcome.status = "returned"
        /\ \A k \in ObjIndices :
            (~isclose(Ref(k), Nadir(k)) /\ ~isclose(Ref(k), Ideal(k)) /\ ~isclose(Ref(k), Cur(k)))
            => /\ Obj(k).symbol \in DOMAIN outcome.value
               /\ (~Obj(k).maximize /\ Ref(k) < Cur(k)) => Got(k) = [cls |-> "<=", level |-> Some(Ref(k))]
               /\ (~Obj(k).maximize /\ Ref(k) > Cur(k)) => Got(k) = [cls |-> ">=", level |-> Some(Ref(k))]
               /\ (Obj(k).maximize /\ Ref(k) > Cur(k)) => Got(k) = [cls |-> "<=", level |-> Some(Ref(k))]
               /\ (Obj(k).maximize /\ Ref(k) < Cur(k)) => Got(k) = [cls |-> ">=", level |-> Some(Ref(k))]
        /\ LET mirrored == infer_classifications(Flipped(call.problem),
                               NegatedPoint(call.current_objectives),
                               NegatedPoint(call.reference_point))
           IN  /\ mirrored.status = "returned"
               /\ DOMAIN mirrored.value = DOMAIN outcome.value
               /\ \A s \in DOMAIN outcome.value : mirrored.value[s].cls = outcome.value[s].cls

\* C8 witness: a maximized objective with its reference below current was
\* classified '>=', a minimized one with its reference below current '<='
C8_Witness ==
    /\ call.fn = "infer_classifications"
    /\ ValidPoints
    /\ outcome.status = "returned"
    /\ Obj(1).maximize /\ Ref(1) < Cur(1) /\ ~isclose(Ref(1), Cur(1))
    /\ Got(1) = [cls |-> ">=", level |-> Some(Ref(1))]
    /\ ~Obj(2).maximize /\ Ref(2) < Cur(2) /\ ~isclose(Ref(2), Cur(2))
    /\ Got(2) = [cls |-> "<=", level |-> Some(Ref(2))]

\* the two solutions of the call as arrays
S1(k) == call.solution_1[call.problem.variables[k]]
S2(k) == call.solution_2[call.problem.variables[k]]
VarIndices == 1..Len(call.problem.variables)

C10_UndefinedBoundsRaiseNimbusError ==
    (/\ call.fn \in {"generate_starting_point", "infer_classifications", "solve_sub_problems"}
     /\ has_undefined_bounds(call.problem)) =>
        /\ outcome = Raised("NimbusError")
        /\ solver_log = <<>>

\* C11 as stated: for num_desired outside 1..4 solve_sub_problems raises
\* NimbusError before constructing any sub-problem and returns no list
\* (stated for otherwise valid arguments: ideal and nadir defined, points
\* complete).
C11_NumDesiredOutOfRangeRaises ==
    (call.fn = "solve_sub_problems" /\ call.num_desired \notin 1..4 /\ ValidPoints) =>
        /\ outcome = Raised("NimbusError")
        /\ solver_log = <<>>

C13_FailedResultKept ==
    (/\ call.fn \in {"solve_sub_problems", "solve_intermediate_solutions"}
     /\ ~has_undefined_bounds(call.problem)
     /\ call.fn = "solve_sub_problems" =>
            /\ has_all_entries(call.problem, call.reference_point)
            /\ has_all_entries(call.problem, call.current_objectives)
            /\ call.num_desired <= 4
     /\ call.failing \in 1..call.num_desired) =>
        /\ outcome.status = "returned"
        /\ Len(outcome.value) = call.num_desired
        /\ Len(solver_log) = call.num_desired
        /\ \A i \in 1..Len(outcome.value) :
            /\ outcome.value[i].success = (i # call.failing)
            /\ outcome.value[i].problem = solver_log[i].problem
            /\ outcome.value[i].target = solver_log[i].target

\* C13 witness: the second of four sub-problems failed and four results were
\* returned
C13_Witness ==
    /\ call.fn = "solve_sub_problems"
    /\ call.num_desired = 4
    /\ call.failing = 2
    /\ outcome.status = "returned"
    /\ Len(outcome.value) = 4
    /\ ~outcome.value[2].success
    /\ outcome.value[4].success

\* ------------------------------------------------------------------------
\* The scalarization builders: claims C14 - C18
\* ------------------------------------------------------------------------
BuilderNames ==
    { "add_asf_nondiff", "add_asf_generic_nondiff", "add_weighted_sums",
      "add_objective_as_scalarization", "add_epsilon_constraints",
      "add_scalarization_function", "add_lte_constraints" }

\* a builder is called
BuilderStep == call = NoCall /\ call' # NoCall /\ call'.fn \in BuilderNames

\* every object held before the call is held after it, unchanged
FrameKept ==
    /\ Len(heap') >= Len(heap)
    /\ \A k \in 1..Len(heap) : heap'[k] = heap[k]

\* the number of scalarizations and of constraints a call adds
AddedScalarizations(c) == IF c.fn = "add_lte_constraints" THEN 0 ELSE 1

AddedConstraints(c, problem) ==
    IF c.fn = "add_lte_constraints" THEN Len(c.funcs)
    ELSE IF c.fn = "add_epsilon_constraints" THEN Len(problem.objectives) - 1
    ELSE 0

\* the returned problem is a new object that is the input plus what the call
\* added: the input's scalarizations and constraints come first, unchanged,
\* and every other field is the input's
AddedOnly ==
    LET old == heap[call'.problem]
        new == heap'[outcome'.value.problem]
    IN  /\ outcome'.value.problem = Len(heap) + 1
        /\ Len(heap') = Len(heap) + 1
        /\ [new EXCEPT !.scalarizations = <<>>, !.constraints = <<>>]
             = [old EXCEPT !.scalarizations = <<>>, !.constraints = <<>>]
        /\ Len(new.scalarizations) = Len(old.scalarizations) + AddedScalarizations(call')
        /\ SubSeq(new.scalarizations, 1, Len(old.scalarizations)) = old.scalarizations
        /\ Len(new.constraints) = Len(old.constraints) + AddedConstraints(call', old)
        /\ SubSeq(new.constraints, 1, Len(old.constraints)) = old.constraints
        /\ AddedScalarizations(call') = 1 =>
               new.scalarizations[Len(new.scalarizations)].symbol = call'.symbol

\* the call returns the symbol it was given
ReturnsSymbol ==
    /\ "symbol" \in DOMAIN outcome'.value
    /\ outcome'.value.symbol = call'.symbol

\* C14 as stated: every builder, add_lte_constraints included, leaves the
\* held problems unchanged and returns a new problem that is the input plus
\* what was added, together with the symbol it was given.
C14_Original ==
    [][BuilderStep =>
        /\ FrameKept
        /\ outcome'.status = "raised" => heap' = heap
        /\ outcome'.status = "returned" => (AddedOnly /\ ReturnsSymbol)]_vars

\* C14: every builder leaves the held problems unchanged, adds nothing when
\* it raises, and returns a new problem that is the input plus what the call
\* added (so it holds nothing added for another variant of the input); the
\* six builders that add a scalarization return it together with the symbol
\* they were given, add_lte_constraints returns the new problem alone.
C14_BuildersPure ==
    [][BuilderStep =>
        /\ FrameKept
        /\ outcome'.status = "raised" => heap' = heap
        /\ outcome'.status = "returned" =>
            /\ AddedOnly
            /\ IF call'.fn = "add_lte_constraints"
               THEN DOMAIN outcome'.value = {"problem"}
               ELSE ReturnsSymbol]_vars

\* C14 witness: two variants were derived from the first problem, one with a
\* scalarization and then one with two constraints, and the first problem
\* still has neither
C14_Witness ==
    /\ Len(heap) = 3
    /\ call # NoCall
    /\ call.fn = "add_lte_constraints"
    /\ call.problem = 1
    /\ outcome.status = "returned"
    /\ heap[1].scalarizations = <<>>
    /\ Len(heap[1].constraints) = 1
    /\ Len(heap[2].scalarizations) = 1
    /\ Len(heap[2].constraints) = 1
    /\ heap[3].scalarizations = <<>>
    /\ Len(heap[3].constraints) = 3

\* the problem a builder was called on (builders leave it unchanged)
BuilderInput == heap[call.problem]

\* C15 as stated: add_asf_nondiff and add_asf_generic_nondiff raise
\* ScalarizationError when the reference point (the weights, for the generic
\* variant) lacks an entry for some objective or when the ideal or nadir of
\* some objective is undefined, whatever the directions of the objectives.
C15_AsfRejectsWithScalarizationError ==
    (/\ call.fn \in {"add_asf_nondiff", "add_asf_generic_nondiff"}
     /\ \/ ~has_all_entries(BuilderInput, call.reference_point)
        \/ (call.fn = "add_asf_generic_nondiff" /\ ~has_all_entries(BuilderInput, call.weights))
        \/ has_undefined_bounds(BuilderInput)) =>
        outcome = Raised("ScalarizationError")

\* the value of an expression over one objective, for a value of its _min
\* symbol, in hundredths
RECURSIVE Eval(_, _)
Eval(e, f_min) ==
    CASE e.op = "Lit" -> e.args[1]
      [] e.op = "Sym" -> f_min
      [] e.op = "Negate" -> 0 - Eval(e.args[1], f_min)
      [] e.op = "Subtract" -> Eval(e.args[1], f_min) - Eval(e.args[2], f_min)
      [] e.op = "Add" -> Eval(e.args[1], f_min) + Eval(e.args[2], f_min)
      [] e.op = "Multiply" -> (Eval(e.args[1], f_min) * Eval(e.args[2], f_min)) \div Unit

SampleValues == { 0 - 300, 0, 100, 725 }

\* the term is a quotient whose numerator is f_min - z_min, z_min being the
\* reference value z of a minimized and -z of a maximized objective
IsReferenceTerm(term, obj, z) ==
    /\ term.op = "Divide"
    /\ \A f \in SampleValues :
        Eval(term.args[1], f) = f - (IF obj.maximize THEN 0 - z ELSE z)

\* the func of the scalarization a call of an ASF builder added
AddedFunc == LET new == heap[outcome.value.problem]
             IN  new.scalarizations[Len(new.scalarizations)].func

\* C16 as stated: in the expressions built by add_asf_nondiff and
\* add_asf_generic_nondiff every term of the max term and, when
\* reference_in_aug is true, of the augmentation term is
\* (f_i_min - z_i_min) / denominator, with z_i_min = z_i for a minimized and
\* -z_i for a maximized objective.
C16_ReferenceConvention ==
    (/\ call.fn \in {"add_asf_nondiff", "add_asf_generic_nondiff"}
     /\ outcome.status = "returned") =>
        LET max_operands == AddedFunc.args[1].args
            aug_operands == AddedFunc.args[2].args[2].args
        IN  \A k \in 1..Len(BuilderInput.objectives) :
                LET obj == BuilderInput.objectives[k]
                    z == call.reference_point[obj.symbol]
                IN  /\ IsReferenceTerm(max_operands[k], obj, z)
                    /\ call.reference_in_aug => IsReferenceTerm(aug_operands[k], obj, z)

C18_LengthMismatchRaises ==
    (/\ call.fn = "add_lte_constraints"
     /\ \/ Len(call.funcs) # Len(call.symbols)
        \/ (call.names # None /\ Len(ValueOf(call.names)) # Len(call.funcs))) =>
        outcome = Raised("ScalarizationError")

\* ------------------------------------------------------------------------
\* The archive over a session: claims C19 - C20
\* ------------------------------------------------------------------------
\* the fields of an entry that identify the solution
Solution(row) ==
    [method |-> row.method, objectives |-> row.objectives,
     decision_variables |-> row.decision_variables]

\* C19: over any sequence of initialize, iterate, intermediate, save and
\* choose calls the archive only grows: every entry stays at its place with
\* its objective vector and its decision variables; only the flags current,
\* saved and chosen of an existing entry change.
C19_ArchiveOnlyGrows ==
    [][/\ Len(archive') >= Len(archive)
       /\ \A i \in 1..Len(archive) : Solution(archive'[i]) = Solution(archive[i])]_vars

\* C19 witness: the archive has grown to three entries, and flags of the
\* first entries have changed: one was chosen and is no longer current
C19_Witness ==
    /\ Len(archive) = 3
    /\ archive[1].chosen
    /\ ~archive[1].current
    /\ archive[2].saved
    /\ archive[3].current

\* C20 as stated: once an entry of the archive has chosen=true, no later
\* call changes the archive: no entry is appended and no flag changes.
C20_ChosenIsTerminal ==
    [][(\E i \in 1..Len(archive) : archive[i].chosen) => archive' = archive]_vars

\* the entries of the key of the NIMBUS method
KeyEntries == { i \in 1..Len(archive) : archive[i].method = NimbusMethod }

\* C21: after a call that completed successfully, and while no entry of the
\* key is chosen, the archive of the key is non-empty and at least one of its
\* entries has current=true.
C21_CurrentExists ==
    (response[1] = "200" /\ \A i \in KeyEntries : ~archive[i].chosen)
        => \E i \in KeyEntries : archive[i].current

\* C21 witness: an iterate has completed and moved the current flag from the
\* first entry to an appended one, and nothing is chosen
C21_Witness ==
    /\ response[1] = "200"
    /\ last_batch # {}
    /\ Len(archive) >= 2
    /\ ~archive[1].current
    /\ archive[Len(archive)].current
    /\ \A i \in KeyEntries : ~archive[i].chosen

\* ------------------------------------------------------------------------
\* generate_starting_point: claim C23
\* ------------------------------------------------------------------------
\* the reference point the caller supplied (empty when none was given)
SuppliedReference ==
    IF call.reference_point = None THEN EmptyDict ELSE ValueOf(call.reference_point)

\* the scalarization the returned result was solved for
StartingScalarization ==
    outcome.value.problem.scalarizations[Len(outcome.value.problem.scalarizations)]

C24_BoundsFollowDirection ==
    call.fn = "binh_and_korn" =>
        \A k \in 1..Len(outcome.value.objectives) :
            LET obj == outcome.value.objectives[k]
            IN  IF obj.maximize
                THEN ValueOf(obj.ideal) >= ValueOf(obj.nadir)
                ELSE ValueOf(obj.ideal) <= ValueOf(obj.nadir)

\* ------------------------------------------------------------------------
\* Solver interfaces: claims C22, C25
\* ------------------------------------------------------------------------
\* how a message names the status a gurobi model ended with
NamesStatus(message, status) ==
    message = "Gurobipy solver status is: '"
              \o (CASE status = GRB.INFEASIBLE -> "Model is infeasible."
                    [] status = GRB.UNBOUNDED -> "Model is unbounded."
                    [] status = GRB.INF_OR_UNBD -> "Model is either infeasible or unbounded."
                    [] status = GRB.OPTIMAL -> "Optimal solution found."
                    [] OTHER -> "Optimization ended with status: " \o ToString(status))
              \o "'"

\* the result holds an entry for every variable and objective of the problem
HoldsEveryEntry(result, problem) ==
    /\ DOMAIN result.optimal_variables = Symbols(problem.variables)
    /\ DOMAIN result.optimal_objectives = Symbols(problem.objectives)

TheSolver == heap[1]
ModelContent == Content(TheSolver.evaluator.variables, TheSolver.evaluator.constraints)

\* what solving the target gave before anything was added to the solver
FirstSolve(target) ==
    solve(PersistentGurobipySolver(TheSolver.problem, TheSolver.evaluator.backend), target).outcome

CloseEntries(solution) ==
    { i \in KeyEntries : allclose(solution, archive[i].objectives) }

\* what a save of the solutions is to do
SaveEffect(solutions) ==
    /\ Len(archive') = Len(archive)
    /\ \A i \in 1..Len(archive) :
          archive'[i] =
              IF \E k \in 1..Len(solutions) : i \in CloseEntries(solutions[k])
              THEN [archive[i] EXCEPT !.saved = TRUE]
              ELSE archive[i]
    /\ response'[1] = "200"

\* C27: a save call sets saved=true on every entry of the key whose
\* objective vector is approximately equal to one of the requested solutions
\* and changes nothing else (no entry added or removed, no current or chosen
\* flag changed); on an empty archive it fails with 404 and changes nothing;
\* and no call ever clears a saved flag.
C27_SaveOnlySetsSaved ==
    [][/\ \A solutions \in SaveRequests :
            save_request(1, solutions) =>
                IF KeyEntries = {}
                THEN archive' = archive /\ response'[1] = "404"
                ELSE SaveEffect(solutions)
       /\ \A i \in 1..Len(archive) : archive[i].saved => archive'[i].saved]_vars

\* C27 witness: a save has flagged the second entry, which is not current,
\* next to a third entry that stays unsaved
C27_Witness ==
    /\ Len(archive) = 3
    /\ response[1] = "200"
    /\ archive[2].saved
    /\ ~archive[2].current
    /\ ~archive[3].saved

\* what a choose of the solution is to do
ChooseEffect(solution) ==
    IF CloseEntries(solution) = {}
    THEN archive' = archive /\ response'[1] = "404"
    ELSE /\ archive' = [archive EXCEPT
                ![CHOOSE i \in CloseEntries(solution) :
                      \A j \in CloseEntries(solution) : i <= j].chosen = TRUE]
         /\ response'[1] = "200"

\* C28: a choose call sets chosen=true on exactly one entry, the first entry
\* of the key whose objective vector is approximately equal to the requested
\* solution, and changes no other entry and no other flag; when no entry
\* matches, or the archive is empty, it fails with 404 and the archive is
\* unchanged.
C28_ChooseFirstMatch ==
    [][\A solution \in RequestedVectors :
          choose_request(1, solution) => ChooseEffect(solution)]_vars

\* C28 witness: the first two entries are both approximately equal to some
\* solution; the first one is chosen and the second one is not
C28_Witness ==
    /\ Len(archive) >= 2
    /\ \E solution \in RequestedVectors : {1, 2} \subseteq CloseEntries(solution)
    /\ archive[1].chosen
    /\ ~archive[2].chosen
    /\ response[1] = "200"

\* ------------------------------------------------------------------------
\* Keys and initialize: claims C26, C29
\* ------------------------------------------------------------------------
\* C26 as stated: entries stored for the same problem and user under a
\* different method keep their current, saved and chosen flags across every
\* initialize, iterate or intermediate call made for the NIMBUS method.
C26_OtherKeysUntouched ==
    [][\A i \in 1..Len(archive) :
          archive[i].method # NimbusMethod =>
              /\ archive'[i].current = archive[i].current
              /\ archive'[i].saved = archive[i].saved
              /\ archive'[i].chosen = archive[i].chosen]_vars

\* C29 as stated: initialize on a key with a non-empty archive leaves the
\* archive unchanged and succeeds; initialize on a key with an empty archive
\* succeeds and leaves exactly one entry, with current=true, saved=false and
\* chosen=false.
C29_InitializeSeedsArchive ==
    [][init_nimbus(1) =>
          /\ response'[1] = "200"
          /\ IF KeyEntries # {}
             THEN archive' = archive
             ELSE /\ Len(archive') = Len(archive) + 1
                  /\ archive'[Len(archive')].method = NimbusMethod
                  /\ archive'[Len(archive')].current
                  /\ ~archive'[Len(archive')].saved
                  /\ ~archive'[Len(archive')].chosen]_vars

\* ------------------------------------------------------------------------
\* Preferences: claim C30
\* ------------------------------------------------------------------------
\* the kind of preference each class of request is to record
StatedKind(request_type) ==
    IF request_type = "NIMBUSIterateRequest" THEN "NIMBUS" ELSE "NIMBUS_intermediate"

\* the entries appended by the step
Appended == (Len(archive) + 1)..Len(archive')

\* C30 as stated: save_results_to_db records no preference for an initialize
\* request, a preference of kind 'NIMBUS' for an iterate request and one of
\* kind 'NIMBUS_intermediate' for an intermediate request; every entry
\* appended by the call references the preference recorded in that call
\* (none for initialize).
C30_PreferenceRecorded ==
    [][\A request_type \in RequestTypes :
          store(request_type) =>
              IF request_type = "InitRequest"
              THEN /\ preferences' = preferences
                   /\ \A i \in Appended : archive'[i].preference = None
              ELSE /\ Len(preferences') = Len(preferences) + 1
                   /\ SubSeq(preferences', 1, Len(preferences)) = preferences
                   /\ preferences'[Len(preferences')].kind = StatedKind(request_type)
                   /\ \A i \in Appended :
                         archive'[i].preference = Some(Len(preferences'))]_vars

====
